---------------------------- MODULE Spec2Model ----------------------------
(***************************************************************************)
(* libcerializer: the primitive big-endian codec (cerializer.c), the       *)
(* dynamic message container (dynmessage.c, on hashmap.c) and the framed   *)
(* message codec (dynmessage_cerializer.c, stored at the end of            *)
(* src/src/hashmap.c).                                                     *)
(*                                                                         *)
(* Integers.  TLC's integers are 32 bits wide, the program's are up to 64. *)
(* A program integer is held as four 16-bit limbs, least significant limb  *)
(* first, <<l0, l1, l2, l3>>, of value l0 + l1*2^16 + l2*2^32 + l3*2^48,   *)
(* with l0..l2 in 0..65535 and l3 in -32768..65535: every integer of       *)
(* -2^63 .. 2^64-1 has exactly one such form, so equality of forms is      *)
(* equality of values.  The build modelled is LP64 little-endian (Linux    *)
(* x86_64): int 32 bits, long, long long and size_t 64 bits.               *)
(***************************************************************************)
EXTENDS Integers, Sequences, FiniteSets, TLC

VARIABLES
    cbuf,     \* codec: the caller's byte buffer (bytes 0..7, then guard bytes)
    cpre,     \* codec: the buffer as it was before the last serialize_int*
    cw,       \* codec: width in bits of the last serialize_int* (0: none yet)
    cin,      \* codec: the value handed to the last serialize_int*
    cdom,     \* codec: "s" / "u" / "x": cin is a signed / unsigned w-bit value / wider
    cop,      \* codec: the last operation
    cout,     \* codec: the value returned by the last deserialize_*
    msg,      \* container: the caller's dynamic message
    out,      \* container: the dyn_field the last dynmessage_get_field filled in
    last,     \* container: the last call on the message and its arguments
    serdi,    \* frame: the caller's serialized_data_info
    din,      \* frame: the input of the last dynmessage_deserialize_bin
    dres      \* frame: what that call returned and did

cvars == <<cbuf, cpre, cw, cin, cdom, cop, cout>>

mvars == <<msg, out, last>>

fvars == <<serdi, din, dres>>

vars == <<cbuf, cpre, cw, cin, cdom, cop, cout, msg, out, last, serdi, din, dres>>

---------------------------------------------------------------------------
(* Limb arithmetic *)

Limb == 256 * 256
HalfLimb == 128 * 256

Pow2(n) == CASE n = 0 -> 1 [] n = 1 -> 2 [] n = 2 -> 4 [] n = 3 -> 8
             [] n = 4 -> 16 [] n = 5 -> 32 [] n = 6 -> 64 [] n = 7 -> 128
             [] n = 8 -> 256 [] n = 9 -> 512 [] n = 10 -> 1024 [] n = 11 -> 2048
             [] n = 12 -> 4096 [] n = 13 -> 8192 [] n = 14 -> 16384
             [] n = 15 -> 32768 [] n = 16 -> 65536

ZZero == <<0, 0, 0, 0>>
ZAllOnes16 == <<Limb - 1, 0, 0, 0>>
ZAllOnes32 == <<Limb - 1, Limb - 1, 0, 0>>
ZAllOnes64 == <<Limb - 1, Limb - 1, Limb - 1, Limb - 1>>
ZMinusOne == <<Limb - 1, Limb - 1, Limb - 1, -1>>

\* the limb form of a TLC integer
FromInt(n) ==
    LET n1 == n \div Limb
        n2 == n1 \div Limb
    IN  <<n % Limb, n1 % Limb, n2 % Limb, n2 \div Limb>>

\* C conversion to an unsigned type of w bits: the value modulo 2^w
ToU(z, w) ==
    LET nl == w \div 16
    IN  [j \in 1..4 |-> IF j <= nl THEN z[j] % Limb ELSE 0]

\* C conversion to a signed type of w bits (two's complement)
ToS(z, w) ==
    LET nl == w \div 16
        u == ToU(z, w)
        neg == u[nl] >= HalfLimb
    IN  [j \in 1..4 |->
            IF j < 4
            THEN (IF j <= nl THEN u[j] ELSE IF neg THEN Limb - 1 ELSE 0)
            ELSE (IF nl = 4 THEN (IF neg THEN u[4] - Limb ELSE u[4])
                  ELSE IF neg THEN -1 ELSE 0)]

\* a - b on integers (borrow runs up the limbs; the top limb carries the sign)
ZSub(a, b) ==
    LET d1 == a[1] - b[1]
        d2 == a[2] - b[2] + (d1 \div Limb)
        d3 == a[3] - b[3] + (d2 \div Limb)
        d4 == a[4] - b[4] + (d3 \div Limb)
    IN  <<d1 % Limb, d2 % Limb, d3 % Limb, d4>>

\* a + b on integers
ZAdd(a, b) ==
    LET d1 == a[1] + b[1]
        d2 == a[2] + b[2] + (d1 \div Limb)
        d3 == a[3] + b[3] + (d2 \div Limb)
        d4 == a[4] + b[4] + (d3 \div Limb)
    IN  <<d1 % Limb, d2 % Limb, d3 % Limb, d4>>

\* a <= b on integers
ZLe(a, b) ==
    \/ a[4] < b[4]
    \/ a[4] = b[4] /\ a[3] < b[3]
    \/ a[4] = b[4] /\ a[3] = b[3] /\ a[2] < b[2]
    \/ a[4] = b[4] /\ a[3] = b[3] /\ a[2] = b[2] /\ a[1] <= b[1]

\* bitwise operations on two values of 0..65535, bit by bit
RECURSIVE BitOp16(_, _, _, _)
BitOp16(op, a, b, n) ==
    IF n = 0 THEN 0
    ELSE IF a = 0 \/ b = 0 THEN (IF op = "and" THEN 0 ELSE a + b)
    ELSE (IF op = "or" THEN (IF (a % 2) + (b % 2) > 0 THEN 1 ELSE 0)
          ELSE IF op = "xor" THEN ((a % 2) + (b % 2)) % 2
          ELSE (a % 2) * (b % 2))
         + 2 * BitOp16(op, a \div 2, b \div 2, n - 1)

\* a | b and a ^ b on unsigned 64-bit values
UOr(a, b) == [j \in 1..4 |-> BitOp16("or", a[j], b[j], 16)]
UXor(a, b) == [j \in 1..4 |-> BitOp16("xor", a[j], b[j], 16)]

ULimb(a, j) == IF j >= 1 /\ j <= 4 THEN a[j] ELSE 0

\* a >> n and a << n on unsigned 64-bit values (0 <= n < 64)
UShr(a, n) ==
    LET q == n \div 16
        r == n % 16
    IN  [j \in 1..4 |->
            (ULimb(a, j + q) \div Pow2(r))
            + (ULimb(a, j + q + 1) % Pow2(r)) * Pow2(16 - r)]

UShl(a, n) ==
    LET q == n \div 16
        r == n % 16
    IN  [j \in 1..4 |->
            ((ULimb(a, j - q) % Pow2(16 - r)) * Pow2(r))
            + (ULimb(a, j - q - 1) \div Pow2(16 - r))]

\* conversion of an unsigned value to unsigned char
Low8(a) == a[1] % 256

\* an unsigned char as an integer
Byte(b) == <<b, 0, 0, 0>>

---------------------------------------------------------------------------
(* cerializer.c: pack and unpack *)

\* packi16(buf, unsigned int i): the two bytes written
packi16_swapped(i) == <<Low8(i), Low8(UShr(i, 8))>>
packi16(i) == <<Low8(UShr(i, 8)), Low8(i)>>

\* packi32(buf, unsigned long i): the four bytes written
packi32_threebytes(i) == <<Low8(UShr(i, 24)), Low8(UShr(i, 16)), Low8(UShr(i, 8))>>
packi32(i) == <<Low8(UShr(i, 24)), Low8(UShr(i, 16)), Low8(UShr(i, 8)), Low8(i)>>

\* packi64(buf, unsigned long long i): the eight bytes written
packi64(i) ==
    <<Low8(UShr(i, 56)), Low8(UShr(i, 48)), Low8(UShr(i, 40)), Low8(UShr(i, 32)),
      Low8(UShr(i, 24)), Low8(UShr(i, 16)), Low8(UShr(i, 8)), Low8(i)>>

\* unpacku16(buf): buf is the sequence of bytes at the pointer
unpacku16(buf) == ToU(UOr(UShl(Byte(buf[1]), 8), Byte(buf[2])), 32)

unpacku32(buf) ==
    UOr(UOr(UOr(UShl(Byte(buf[1]), 24), UShl(Byte(buf[2]), 16)),
            UShl(Byte(buf[3]), 8)), Byte(buf[4]))

unpacku64(buf) ==
    UOr(UOr(UOr(UOr(UOr(UOr(UOr(UShl(Byte(buf[1]), 56), UShl(Byte(buf[2]), 48)),
        UShl(Byte(buf[3]), 40)), UShl(Byte(buf[4]), 32)), UShl(Byte(buf[5]), 24)),
        UShl(Byte(buf[6]), 16)), UShl(Byte(buf[7]), 8)), Byte(buf[8]))

\* unpacki16: -1 - (unsigned int)(0xffffu - i2) is unsigned int arithmetic, the
\* result converted to int
unpacki16_nosign(buf) == unpacku16(buf)
unpacki16(buf) ==
    LET i2 == unpacku16(buf)
    IN  IF ZLe(i2, FromInt(32767)) THEN ToS(i2, 32)
        ELSE ToS(ToU(ZSub(ToU(ZMinusOne, 32), ToU(ZSub(ZAllOnes16, i2), 32)), 32), 32)

\* unpacki32: -1 - (long int)(0xffffffffu - i2) is long arithmetic
unpacki32(buf) ==
    LET i2 == unpacku32(buf)
    IN  IF ZLe(i2, <<Limb - 1, HalfLimb - 1, 0, 0>>) THEN ToS(i2, 64)
        ELSE ToS(ZSub(ZMinusOne, ToS(ToU(ZSub(ZAllOnes32, i2), 64), 64)), 64)

\* unpacki64: -1 - (long long int)(0xffffffffffffffffu - i2)
unpacki64_offbyone(buf) ==
    LET i2 == unpacku64(buf)
    IN  IF ZLe(i2, <<Limb - 1, Limb - 1, Limb - 1, HalfLimb - 1>>) THEN ToS(i2, 64)
        ELSE ToS(ZSub(ZZero, ToS(ToU(ZSub(ZAllOnes64, i2), 64), 64)), 64)
unpacki64(buf) ==
    LET i2 == unpacku64(buf)
    IN  IF ZLe(i2, <<Limb - 1, Limb - 1, Limb - 1, HalfLimb - 1>>) THEN ToS(i2, 64)
        ELSE ToS(ZSub(ZMinusOne, ToS(ToU(ZSub(ZAllOnes64, i2), 64), 64)), 64)

\* the bytes of buf with `bytes` stored at offsets off, off+1, ... (0-based)
Store(buf, off, bytes) ==
    [k \in 1..Len(buf) |->
        IF k - 1 >= off /\ k - 1 < off + Len(bytes) THEN bytes[k - off] ELSE buf[k]]

\* serialize_int16/32/64(buf, i): the parameter conversion, then pack
serialize_int16(buf, x) == Store(buf, 0, packi16(ToU(x, 32)))
serialize_int32(buf, x) == Store(buf, 0, packi32(ToU(x, 64)))
serialize_int64(buf, x) == Store(buf, 0, packi64(ToU(x, 64)))

deserialize_int16(buf) == unpacki16(buf)
deserialize_uint16(buf) == unpacku16(buf)
deserialize_int32(buf) == unpacki32(buf)
deserialize_uint32(buf) == unpacku32(buf)
deserialize_int64(buf) == unpacki64(buf)
deserialize_uint64(buf) == unpacku64(buf)

---------------------------------------------------------------------------
(* Strings and raw memory.  A `char *` is modelled by the characters up to  *)
(* the terminator and by `fill`, the content of the bytes that follow the   *)
(* terminator inside the first sizeof(size_t) bytes at that address: they   *)
(* belong to whatever lies behind the string (the rest of the caller's      *)
(* array, or of the heap block strdup returned), and the hash function      *)
(* reads them.                                                              *)

NullName == [null |-> TRUE, chars |-> <<>>, fill |-> 0]

StrPtr(chars, fill) ==
    [null |-> FALSE, chars |-> chars, fill |-> IF Len(chars) >= 7 THEN 0 ELSE fill]

\* strdup(s): a heap copy; what follows its terminator is the heap's
strdup(s, heapfill) == StrPtr(s.chars, heapfill)

strlen(s) == Len(s.chars)

\* test_string_equal(l, r): strcmp(l, r) == 0
test_string_equal(l, r) == IF l.chars = r.chars THEN 1 ELSE 0

\* the content of memory behind a short string's terminator
Fills == {0, 65}

\* "f", "message_id", "field_<k>", "Heartbeat"
NameF == <<102>>
NameMessageId == <<109, 101, 115, 115, 97, 103, 101, 95, 105, 100>>
NameField(k) == <<102, 105, 101, 108, 100, 95, 48 + k>>
NameHeartbeat == <<72, 101, 97, 114, 116, 98, 101, 97, 116>>

\* the n-byte little-endian object at the start of `bytes`, as an unsigned integer
LoadLE(bytes, n) ==
    LET b(k) == IF k <= n /\ k <= Len(bytes) THEN bytes[k] ELSE 0
    IN  [j \in 1..4 |-> b(2 * j - 1) + 256 * b(2 * j)]

\* the first sizeof(size_t) = 8 bytes at the address of a string
KeyWord(key) ==
    [k \in 1..8 |-> IF k <= Len(key.chars) THEN key.chars[k]
                    ELSE IF k = Len(key.chars) + 1 THEN 0
                    ELSE key.fill]

\* a % n for an unsigned 64-bit a and a small n
UMod(a, n) ==
    LET r4 == a[4] % n
        r3 == (r4 * Limb + a[3]) % n
        r2 == (r3 * Limb + a[2]) % n
    IN  (r2 * Limb + a[1]) % n

---------------------------------------------------------------------------
(* hashmap.c, as dynmessage.c uses it: keys are strings, compared with      *)
(* test_string_equal, hashed with default_hash_func; a value is a reference *)
(* to a dyn_field (its index in the message's `fields`, 0 for NULL).        *)

NULL == 0

\* the only element of a one-element set: Only({e}) is e worked out once,
\* the way a C statement works out a value once before the next one uses it
Only(S) == CHOOSE x \in S : TRUE

\* one statement of default_hash_func on the size_t a, modulo 2^64:
\* a -= (a << n), a ^= (a >> n) or a ^= (a << n)
HashStep(a, stmt, n) ==
    CASE stmt = "-=<<" -> ToU(ZSub(a, UShl(a, n)), 64)
      [] stmt = "^=>>" -> UXor(a, UShr(a, n))
      [] stmt = "^=<<" -> UXor(a, UShl(a, n))

\* default_hash_func(key): the statements in order, from a = *((size_t *) key)
default_hash_func(key) ==
    Only({HashStep(a6, "^=>>", 15) : a6 \in
         {HashStep(a5, "^=<<", 10) : a5 \in
         {HashStep(a4, "-=<<", 3) : a4 \in
         {HashStep(a3, "^=<<", 4) : a3 \in
         {HashStep(a2, "-=<<", 9) : a2 \in
         {HashStep(a1, "^=>>", 17) : a1 \in
         {HashStep(a0, "-=<<", 6) : a0 \in {LoadLE(KeyWord(key), 8)}}}}}}}})

\* map->hash_func: dynmessage_init hands hashmap_init no hash function.  The
\* hashes of the names the callers below use are worked out once; any other
\* key is hashed when it turns up.
KnownKeys ==
    {StrPtr(c, f) : c \in {NameF, NameMessageId}, f \in Fills}
        \cup {StrPtr(NameField(k), 0) : k \in 1..9}
KnownHashes == [key \in KnownKeys |-> default_hash_func(key)]
hash_func(key) ==
    IF key \in KnownKeys THEN KnownHashes[key] ELSE default_hash_func(key)

\* a bucket: table[i] is NULL (alloc = FALSE) or a list, head first
NullList == [alloc |-> FALSE, nodes |-> <<>>]

NullMap == [null |-> TRUE, capacity |-> 0, size |-> 0, table |-> <<>>]

hashmap_init(capacity) ==
    [null |-> FALSE, capacity |-> capacity, size |-> 0,
     table |-> [i \in 1..capacity |-> NullList]]

hashmap_empty(map) == IF map.null \/ map.size = 0 THEN 1 ELSE 0

\* the index in table of the bucket of key (the code's offset, plus one)
Offset(map, key) ==
    Only({UMod(h, map.capacity) + 1 : h \in {hash_func(key)}})

\* position in a list of the first entry whose key equals key, 0 if none
FindEntry(nodes, key) ==
    LET S == {i \in 1..Len(nodes) : test_string_equal(nodes[i].key, key) # 0}
    IN  IF S = {} THEN 0 ELSE CHOOSE i \in S : \A j \in S : i <= j

hashmap_contains_key(map, key) ==
    IF ~map.null /\ ~key.null
    THEN Only({IF ~list.alloc THEN 0
               ELSE IF FindEntry(list.nodes, key) # 0 THEN 1 ELSE 0
               : list \in {map.table[Offset(map, key)]}})
    ELSE 0

hashmap_get(map, key) ==
    IF hashmap_empty(map) # 0 \/ key.null THEN NULL
    ELSE Only({IF ~list.alloc THEN NULL
               ELSE Only({IF i # 0 THEN list.nodes[i].value ELSE NULL
                          : i \in {FindEntry(list.nodes, key)}})
               : list \in {map.table[Offset(map, key)]}})

\* hashmap_entries / hashmap_keys: bucket by bucket, each list head first
RECURSIVE EntriesFrom(_, _)
EntriesFrom(map, i) ==
    IF i > map.capacity THEN <<>>
    ELSE map.table[i].nodes \o EntriesFrom(map, i + 1)

hashmap_entries(map) == EntriesFrom(map, 1)

hashmap_keys(map) ==
    Only({[k \in 1..Len(e) |-> e[k].key] : e \in {hashmap_entries(map)}})

hashmap_rehash_required(map, key) ==
    Only({IF ~list.alloc THEN 0
          ELSE Cardinality({i \in 1..Len(list.nodes) :
                  /\ map.capacity = map.size
                  /\ new_key_offset
                       # Only({UMod(h, 2 * map.capacity)
                               : h \in {hash_func(list.nodes[i].key)}})})
          : list \in {map.table[Offset(map, key)]},
            new_key_offset \in {Only({UMod(h, 2 * map.capacity)
                                      : h \in {hash_func(key)}})}})

RECURSIVE hashmap_put(_, _, _)
RECURSIVE PutEntries(_, _, _)

\* hashmap_rehash: the entries saved, the table replaced, the entries put back
PutEntries(map, entries, k) ==
    IF k > Len(entries) THEN map
    ELSE Only({PutEntries(m, entries, k + 1)
               : m \in {hashmap_put(map, entries[k].key, entries[k].value)}})

hashmap_rehash(map, capacity) ==
    Only({PutEntries(hashmap_init(capacity), e, 1) : e \in {hashmap_entries(map)}})

hashmap_put(map, key, value) ==
    IF map.null \/ key.null THEN map
    ELSE Only({
        IF ~map.table[offset].alloc
        THEN [map EXCEPT !.table[offset] =
                             [alloc |-> TRUE,
                              nodes |-> <<[key |-> key, value |-> value]>>],
                         !.size = @ + 1]
        ELSE Only({
            IF found # 0
            THEN [map EXCEPT !.table[offset].nodes[found].value = value]
            ELSE IF hashmap_rehash_required(map, key) # 0
            THEN Only({hashmap_put(m, key, value)
                       : m \in {hashmap_rehash(map, 2 * map.capacity)}})
            ELSE [map EXCEPT !.table[offset].nodes =
                                 <<[key |-> key, value |-> value]>> \o @,
                             !.size = @ + 1]
            : found \in {FindEntry(map.table[offset].nodes, key)}})
        : offset \in {Offset(map, key)}})

\* the hashmap_entry hashmap_remove hands back; NULL when nothing was removed
NoEntry == [null |-> TRUE, key |-> NullName, value |-> NULL]

\* a sequence without its i-th element
Without(seq, i) == SubSeq(seq, 1, i - 1) \o SubSeq(seq, i + 1, Len(seq))

\* hashmap_remove(map, key): the map afterwards, the entry returned, and
\* fault when the walk starts at the NULL head of a list that was emptied
hashmap_remove(map, key) ==
    IF hashmap_empty(map) # 0 \/ key.null
    THEN [map |-> map, entry |-> NoEntry, fault |-> FALSE]
    ELSE Only({
        IF ~map.table[offset].alloc
        THEN [map |-> map, entry |-> NoEntry, fault |-> FALSE]
        ELSE IF map.table[offset].nodes = <<>>
        THEN [map |-> map, entry |-> NoEntry, fault |-> TRUE]
        ELSE Only({
            IF found = 0 THEN [map |-> map, entry |-> NoEntry, fault |-> FALSE]
            ELSE [map |-> [map EXCEPT !.table[offset].nodes = Without(@, found),
                                      !.size = @ - 1],
                  entry |-> [null |-> FALSE,
                             key |-> map.table[offset].nodes[found].key,
                             value |-> map.table[offset].nodes[found].value],
                  fault |-> FALSE]
            : found \in {FindEntry(map.table[offset].nodes, key)}})
        : offset \in {Offset(map, key)}})

---------------------------------------------------------------------------
(* dynmessage.h: field types and values *)

ENUMERATION_TYPE == 0
INT8_TYPE == 1
UNSIGNED_INT8_TYPE == 2
INT16_TYPE == 3
UNSIGNED_INT16_TYPE == 4
INT32_TYPE == 5
UNSIGNED_INT32_TYPE == 6
INT64_TYPE == 7
UNSIGNED_INT64_TYPE == 8
FLOAT32_TYPE == 9
FLOAT64_TYPE == 10
STRING_TYPE == 11
NO_TYPE == 12

(* A float or double is held by its value, (-1)^neg * man * 2^exp with man  *)
(* odd (or zero, exp = 0), so that equal forms are equal numbers; fin is    *)
(* FALSE for an infinity or a NaN.                                          *)
FZero == [fin |-> TRUE, neg |-> FALSE, man |-> ZZero, exp |-> 0]

RECURSIVE FCanon(_, _, _)
FCanon(neg, man, exp) ==
    IF man = ZZero THEN [fin |-> TRUE, neg |-> neg, man |-> ZZero, exp |-> 0]
    ELSE IF man[1] % 2 = 0 THEN FCanon(neg, UShr(man, 1), exp + 1)
    ELSE [fin |-> TRUE, neg |-> neg, man |-> man, exp |-> exp]

\* the value of the IEEE-754 object of `bits` bits the hardware reads from u
HwDecode(u, bits, expbits) ==
    LET sb == bits - expbits - 1
        e == UShr(u, sb)[1] % Pow2(expbits)
        frac == UShr(UShl(u, 64 - sb), 64 - sb)
        neg == UShr(u, bits - 1)[1] % 2 = 1
        bias == Pow2(expbits - 1) - 1
    IN  IF e = Pow2(expbits) - 1
        THEN [fin |-> FALSE, neg |-> neg, man |-> frac, exp |-> 0]
        ELSE IF e = 0 THEN FCanon(neg, frac, 1 - bias - sb)
        ELSE FCanon(neg, UOr(frac, UShl(Byte(1), sb)), e - bias - sb)

\* the characters of the string at the start of `bytes`
ReadString(bytes) ==
    LET n == CHOOSE k \in 1..Len(bytes) :
                 bytes[k] = 0 /\ \A j \in 1..(k - 1) : bytes[j] # 0
    IN  SubSeq(bytes, 1, n - 1)

\* a dyn_field_value: the member of the field's type is the one that counts
NullValue == [null |-> TRUE, num |-> ZZero, flt |-> FZero, str |-> <<>>]
NumValue(z) == [null |-> FALSE, num |-> z, flt |-> FZero, str |-> <<>>]
FltValue(f) == [null |-> FALSE, num |-> ZZero, flt |-> f, str |-> <<>>]
StrValue(s) == [null |-> FALSE, num |-> ZZero, flt |-> FZero, str |-> s]

\* a void * handed to the container: the bytes at that address; NULL is empty
NullBuf == <<>>

\* update_field_value's switch: *(T *) value, T the member type of `type`
ReadValue(type, value) ==
    CASE type = ENUMERATION_TYPE -> NumValue(LoadLE(value, 4))
      [] type = INT8_TYPE ->
            NumValue(FromInt(IF value[1] >= 128 THEN value[1] - 256 ELSE value[1]))
      [] type = UNSIGNED_INT8_TYPE -> NumValue(Byte(value[1]))
      [] type = INT16_TYPE -> NumValue(ToS(LoadLE(value, 4), 32))
      [] type = UNSIGNED_INT16_TYPE -> NumValue(LoadLE(value, 4))
      [] type = INT32_TYPE -> NumValue(ToS(LoadLE(value, 8), 64))
      [] type = UNSIGNED_INT32_TYPE -> NumValue(LoadLE(value, 8))
      [] type = INT64_TYPE -> NumValue(ToS(LoadLE(value, 8), 64))
      [] type = UNSIGNED_INT64_TYPE -> NumValue(LoadLE(value, 8))
      [] type = FLOAT32_TYPE -> FltValue(HwDecode(LoadLE(value, 4), 32, 8))
      [] type = FLOAT64_TYPE -> FltValue(HwDecode(LoadLE(value, 8), 64, 11))
      [] type = STRING_TYPE -> StrValue(ReadString(value))
      [] OTHER -> NullValue

---------------------------------------------------------------------------
(* dynmessage.c.  A message is a record: name, the hashmap fields_info,     *)
(* the dyn_field objects it owns (`fields`, a field's reference is its      *)
(* index), field_count, and `crashed`, set when the code dereferences NULL. *)
(* `heap` tells what lies behind message->fields_info and message->name     *)
(* when they are not NULL: "live" storage, "junk" (the members were never   *)
(* assigned) or "freed" storage; `uaf` is set when a call reads or writes   *)
(* through a member that is junk or refers to freed storage.  `mem` is the  *)
(* account of the heap blocks the calls on the message acquire and release. *)

\* the account of heap blocks: those allocated and not released (a block is
\* a pair of what it holds and which one it is), `twice` once free is called
\* on a block that is not allocated, `lost` once the only pointer to an
\* allocated block is overwritten by a new allocation
NoMem == [live |-> {}, twice |-> FALSE, lost |-> FALSE]

\* SAFE_MALLOC / strdup: block b is allocated
Acquire(mem, b) ==
    [mem EXCEPT !.live = @ \cup {b}, !.lost = @ \/ b \in mem.live]

\* SAFE_FREE / free: block b is released
Release(mem, b) ==
    IF b \in mem.live THEN [mem EXCEPT !.live = @ \ {b}]
    ELSE [mem EXCEPT !.twice = TRUE]

RECURSIVE AcquireAll(_, _)
AcquireAll(mem, bs) ==
    IF bs = <<>> THEN mem ELSE AcquireAll(Acquire(mem, Head(bs)), Tail(bs))

RECURSIVE ReleaseAll(_, _)
ReleaseAll(mem, bs) ==
    IF bs = <<>> THEN mem ELSE ReleaseAll(Release(mem, Head(bs)), Tail(bs))

\* the hashmap_entry objects and list nodes are told apart by their number
Held(mem, kind) == Cardinality({b \in mem.live : b[1] = kind})

\* the slinkedlist blocks of the buckets of a map
MapLists(map) ==
    IF map.null THEN {}
    ELSE {<<"slinkedlist", i>> : i \in {j \in 1..map.capacity : map.table[j].alloc}}

\* a set as a sequence
RECURSIVE SeqOf(_)
SeqOf(S) == IF S = {} THEN <<>> ELSE LET x == CHOOSE y \in S : TRUE
                                     IN  <<x>> \o SeqOf(S \ {x})

\* what hashmap_put(map, key, value) allocates: the list of a bucket that had
\* none, and the hashmap_entry and the list node of a key that was not stored
\* (a rehash releases the lists of the old table and builds those of the new)
PutBlocks(mem, map, after) ==
    Only({IF after.size > map.size
          THEN AcquireAll(m, <<<<"hashmap_entry", Held(m, "hashmap_entry") + 1>>,
                               <<"slinkedlist_node", Held(m, "slinkedlist_node") + 1>>>>)
          ELSE m
          : m \in {AcquireAll(ReleaseAll(mem, SeqOf(MapLists(map) \ MapLists(after))),
                              SeqOf(MapLists(after) \ MapLists(map)))}})

\* update_field_value without the free of the string it replaces
StoreBlocks_keep(mem, field, type, fresh) ==
    Only({IF type = STRING_TYPE THEN Acquire(m, <<"string_value", field>>) ELSE m
          : m \in {IF fresh THEN Acquire(mem, <<"dyn_field_value", field>>)
                    ELSE mem}})

\* what update_field_value does to the heap for field number `field` of the
\* given type: a dyn_field_value when the field has none, the old string
\* freed and the copy strdup makes for a STRING field
StoreBlocks(mem, field, type, fresh) ==
    Only({IF type = STRING_TYPE THEN Acquire(m, <<"string_value", field>>) ELSE m
          : m \in {IF fresh THEN Acquire(mem, <<"dyn_field_value", field>>)
                    ELSE IF type = STRING_TYPE
                    THEN Release(mem, <<"string_value", field>>)
                    ELSE mem}})

\* hashmap_init(field_info, 17, ...) in dynmessage_init
FIELDS_INFO_CAPACITY == 17

dynmessage_init(name) ==
    [name |-> name.chars, map |-> hashmap_init(FIELDS_INFO_CAPACITY),
     fields |-> <<>>, field_count |-> 0, crashed |-> FALSE,
     heap |-> "live", uaf |-> FALSE,
     mem |-> AcquireAll(NoMem, <<<<"hashmap", 0>>, <<"name", 0>>, <<"table", 0>>>>)]

\* a message that dynmessage_init has not reached; also stands for the NULL
\* dynamicmessage pointer
NoMessage ==
    [name |-> <<>>, map |-> NullMap, fields |-> <<>>, field_count |-> 0,
     crashed |-> FALSE, heap |-> "live", uaf |-> FALSE, mem |-> NoMem]

dynmessage_initialized(message) == IF ~message.map.null THEN 1 ELSE 0

update_field_value(message, name, value) ==
    Only({IF field = NULL THEN [message EXCEPT !.crashed = TRUE]
          ELSE Only({[message EXCEPT
                   !.fields[field].value = ReadValue(message.fields[field].type, value),
                   !.map = after,
                   !.mem = PutBlocks(StoreBlocks(@, field, message.fields[field].type,
                                                 message.fields[field].value.null),
                                     message.map, after)]
                   : after \in {hashmap_put(message.map, name, field)}})
          : field \in {hashmap_get(message.map, name)}})

\* heapfill: what the heap holds behind the copy strdup(name) makes
dynmessage_put_field_and_value(message, name, type, value, heapfill) ==
    IF dynmessage_initialized(message) = 0 \/ name.null \/ value = NullBuf
    THEN message
    ELSE IF type < ENUMERATION_TYPE \/ type > STRING_TYPE THEN message
    ELSE Only({update_field_value(m, name, value) : m \in {
             IF hashmap_contains_key(message.map, name) = 0
             THEN Only({[message EXCEPT
                      !.fields = Append(@, [name |-> strdup(name, heapfill),
                                            type |-> type, value |-> NullValue,
                                            seq |-> message.field_count + 1]),
                      !.field_count = @ + 1,
                      !.map = after,
                      !.mem = PutBlocks(
                                  AcquireAll(@, <<<<"dyn_field", Len(message.fields) + 1>>,
                                                  <<"field name", Len(message.fields) + 1>>>>),
                                  message.map, after)]
                      : after \in {hashmap_put(message.map, strdup(name, heapfill),
                                               Len(message.fields) + 1)}})
             ELSE message}})

\* the dyn_field a failed lookup fills in
NoField == [name |-> NullName, type |-> NO_TYPE, value |-> NULL, seq |-> -1]

\* dynmessage_get_field(message, name, value): what *value holds afterwards;
\* its value member refers to the storage of the field's value
dynmessage_get_field(message, name) ==
    Only({IF field = NULL THEN NoField
          ELSE [name |-> name, type |-> message.fields[field].type,
                value |-> IF message.fields[field].value.null THEN NULL ELSE field,
                seq |-> message.fields[field].seq]
          : field \in {IF dynmessage_initialized(message) # 0 /\ ~name.null
                       THEN hashmap_get(message.map, name) ELSE NULL}})

\* dynmessage_create(): a block malloc has not written to, every byte of it
\* junk; the junk bytes 0 read as NULL members and a field_count of 0
dynmessage_create(junk) ==
    IF junk = 0 THEN [NoMessage EXCEPT !.mem = Acquire(@, <<"dynamicmessage", 0>>)]
    ELSE [NoMessage EXCEPT !.map.null = FALSE, !.heap = "junk",
                           !.field_count = -1515870811,
                           !.mem = Acquire(@, <<"dynamicmessage", 0>>)]

\* message->fields_info is not NULL and no live hashmap is behind it
Stale(message) == ~message.map.null /\ message.heap # "live"

\* what the read of fields_info->table in dynmessage_initialized can do when
\* the member is stale: fault, give NULL, or (freed storage) give what the
\* block held when it was released
StaleOutcomes(message) ==
    IF message.heap = "freed" THEN {"fault", "null", "stale"} ELSE {"fault", "null"}

\* a dyn_field object that has been released
ReleasedField == [name |-> NullName, type |-> NO_TYPE, value |-> NullValue, seq |-> 0]

\* what hashmap_remove does to the heap when it finds the key: the copy of
\* the entry it returns is allocated, the entry and its list node are freed
RemoveBlocks(mem) ==
    ReleaseAll(Acquire(mem, <<"del_entry", 0>>),
               <<<<"hashmap_entry", Held(mem, "hashmap_entry")>>,
                 <<"slinkedlist_node", Held(mem, "slinkedlist_node")>>>>)

\* the frees of the loop of dynmessage_free for the dyn_field `field` of the
\* given type: its name, its string, its value, the field and the entry
\* hashmap_remove returned
FieldBlocks(mem, field, type) ==
    ReleaseAll(mem, <<<<"field name", field>>>>
                    \o (IF type = STRING_TYPE THEN <<<<"string_value", field>>>> ELSE <<>>)
                    \o <<<<"dyn_field_value", field>>, <<"dyn_field", field>>,
                         <<"del_entry", 0>>>>)

\* the loop of dynmessage_free: hashmap_remove of each key, then the free of
\* the field the entry refers to, of its name and of its value
RECURSIVE FreeFields(_, _, _)
FreeFields(message, field_keys, k) ==
    IF k > Len(field_keys) THEN message
    ELSE Only({
        IF r.fault THEN [message EXCEPT !.crashed = TRUE]
        ELSE IF r.entry.null
        THEN FreeFields([message EXCEPT !.map = r.map], field_keys, k + 1)
        ELSE FreeFields([message EXCEPT
                            !.map = r.map,
                            !.fields[r.entry.value] = ReleasedField,
                            !.mem = FieldBlocks(RemoveBlocks(@), r.entry.value,
                                                message.fields[r.entry.value].type)],
                        field_keys, k + 1)
        : r \in {hashmap_remove(message.map, field_keys[k])}})

\* the list hashmap_keys returns: the list and one node for each key, none
\* when the map is empty
KeysBlocks(field_keys) ==
    IF field_keys = <<>> THEN <<>>
    ELSE <<<<"field_keys", 0>>>> \o [k \in 1..Len(field_keys) |-> <<"field_keys node", k>>]

\* hashmap_free(map): the nodes and entries left in each list, the lists, the
\* table and the map
hashmap_free(mem, map) ==
    IF map.null THEN mem
    ELSE ReleaseAll(mem,
             [k \in 1..map.size |-> <<"hashmap_entry", map.size + 1 - k>>]
             \o [k \in 1..map.size |-> <<"slinkedlist_node", map.size + 1 - k>>]
             \o SeqOf(MapLists(map))
             \o <<<<"table", 0>>, <<"hashmap", 0>>>>)

\* dynmessage_free(message): the members keep the addresses of the storage
\* hashmap_free and free(message->name) release; only field_count is
\* assigned.  On storage that is freed already the calls of free release it
\* a second time, which ends the process.
dynmessage_free(message) ==
    IF dynmessage_initialized(message) = 0 THEN message
    ELSE IF message.heap = "freed" THEN [message EXCEPT !.crashed = TRUE]
    ELSE Only({Only({
               IF m.crashed THEN m
               ELSE [m EXCEPT !.field_count = 0, !.heap = "freed",
                              !.mem = Release(hashmap_free(
                                                  ReleaseAll(@, KeysBlocks(field_keys)),
                                                  m.map),
                                              <<"name", 0>>)]
               : m \in {FreeFields([message EXCEPT
                                       !.mem = AcquireAll(@, KeysBlocks(field_keys))],
                                   field_keys, 1)}})
               : field_keys \in {hashmap_keys(message.map)}})

\* dynmessage_destroy(message): dynmessage_free, then the block of the handle
\* is released
dynmessage_destroy(message) ==
    Only({IF m.crashed THEN m
          ELSE [m EXCEPT !.mem = Release(@, <<"dynamicmessage", 0>>)]
          : m \in {dynmessage_free(message)}})

---------------------------------------------------------------------------
(* cerializer.c: floating point.  pack754 and unpack754 work on the value   *)
(* of a long double; the build keeps a float in 32 and a double in 64 bits  *)
(* of IEEE-754.                                                             *)

\* number of bits of an unsigned integer
RECURSIVE BitLen(_)
BitLen(z) == IF z = ZZero THEN 0 ELSE 1 + BitLen(UShr(z, 1))

\* byte j (0 the least significant) of the 64-bit two's complement form of z
ByteOf(z, j) == ((z[(j \div 2) + 1] % Limb) \div (IF j % 2 = 0 THEN 1 ELSE 256)) % 256

\* the n bytes of an integer object in memory, least significant first
StoreLE(z, n) == [k \in 1..n |-> ByteOf(z, k - 1)]

\* pack754's two normalisation loops.  fnorm lies in [2^(top-1), 2^top):
\* while (fnorm >= 2.0) { fnorm /= 2.0; shift++; }
\* while (fnorm < 1.0) { fnorm *= 2.0; shift--; }
\* (64 or 8 rounds of a loop are taken in one step where that many follow)
RECURSIVE NormLoops(_, _)
NormLoops(top, shift) ==
    IF top >= 65 THEN NormLoops(top - 64, shift + 64)
    ELSE IF top >= 9 THEN NormLoops(top - 8, shift + 8)
    ELSE IF top >= 2 THEN NormLoops(top - 1, shift + 1)
    ELSE IF top < -62 THEN NormLoops(top + 64, shift - 64)
    ELSE IF top < -6 THEN NormLoops(top + 8, shift - 8)
    ELSE IF top < 1 THEN NormLoops(top + 1, shift - 1)
    ELSE shift

\* pack754 with the significand scaled by half of (1LL << significandbits)
pack754_half(f, bits, expbits) ==
    IF f.man = ZZero THEN ZZero
    ELSE LET significandbits == bits - expbits - 1
             sign == IF f.neg THEN 1 ELSE 0
             len == BitLen(f.man)
             shift == NormLoops(len + f.exp, 0)
             significand ==
                 UShr(UShl(ZSub(f.man, UShl(Byte(1), len - 1)),
                           significandbits - (len - 1)), 1)
             exp == shift + (Pow2(expbits - 1) - 1)
         IN  UOr(UOr(UShl(Byte(sign), bits - 1),
                     UShl(ToU(FromInt(exp), 64), significandbits)),
                 significand)

\* pack754(f, bits, expbits) for a finite f whose significand fits the format
pack754(f, bits, expbits) ==
    IF f.man = ZZero THEN ZZero
    ELSE LET significandbits == bits - expbits - 1
             sign == IF f.neg THEN 1 ELSE 0
             len == BitLen(f.man)
             shift == NormLoops(len + f.exp, 0)
             \* fnorm - 1.0 is (man - 2^(len-1)) / 2^(len-1)
             significand ==
                 UShl(ZSub(f.man, UShl(Byte(1), len - 1)), significandbits - (len - 1))
             exp == shift + (Pow2(expbits - 1) - 1)
         IN  UOr(UOr(UShl(Byte(sign), bits - 1),
                     UShl(ToU(FromInt(exp), 64), significandbits)),
                 significand)

\* unpack754(i, bits, expbits): the long double returned
unpack754(i, bits, expbits) ==
    IF i = ZZero THEN FZero
    ELSE LET significandbits == bits - expbits - 1
             frac == UShr(UShl(i, 64 - significandbits), 64 - significandbits)
             bias == Pow2(expbits - 1) - 1
             shift == (UShr(i, significandbits)[1] % Pow2(expbits)) - bias
             neg == UShr(i, bits - 1)[1] % 2 = 1
         IN  FCanon(neg, UOr(frac, UShl(Byte(1), significandbits)),
                    shift - significandbits)

\* conversion of unpack754's result to float (32, 8) or double (64, 11): exact
\* but below the normal range, where it rounds to even, and above the range
FloatConv(f, bits, expbits) ==
    LET significandbits == bits - expbits - 1
        bias == Pow2(expbits - 1) - 1
        half == UShr(f.man, 1)
    IN  IF f.man = ZZero \/ ~f.fin THEN f
        ELSE IF f.exp + BitLen(f.man) - 1 > bias
        THEN [fin |-> FALSE, neg |-> f.neg, man |-> ZZero, exp |-> 0]
        ELSE IF f.exp >= 1 - bias - significandbits THEN f
        ELSE FCanon(f.neg,
                    IF half[1] % 2 = 0 THEN half ELSE ZAdd(half, Byte(1)),
                    f.exp + 1)

\* the bits of the float or double object that holds f
HwEncode(f, bits, expbits) ==
    LET significandbits == bits - expbits - 1
        bias == Pow2(expbits - 1) - 1
        len == BitLen(f.man)
        sign == UShl(Byte(IF f.neg THEN 1 ELSE 0), bits - 1)
        top == f.exp + len - 1
    IN  IF ~f.fin
        THEN UOr(sign, UOr(UShl(FromInt(Pow2(expbits) - 1), significandbits), f.man))
        ELSE IF f.man = ZZero THEN sign
        ELSE IF top >= 1 - bias
        THEN UOr(sign,
                 UOr(UShl(FromInt(top + bias), significandbits),
                     ZSub(UShl(f.man, significandbits - (len - 1)),
                          UShl(Byte(1), significandbits))))
        ELSE UOr(sign, UShl(f.man, f.exp - (1 - bias - significandbits)))

\* serialize_float32/64(buf, f): the bytes written at buf
serialize_float32(buf, f) == Store(buf, 0, packi32(pack754(f, 32, 8)))
serialize_float64(buf, f) == Store(buf, 0, packi64(pack754(f, 64, 11)))

\* deserialize_float32 returns the long double, deserialize_float64 a double
deserialize_float32(buf) == unpack754(unpacku32(buf), 32, 8)
deserialize_float64(buf) == FloatConv(unpack754(unpacku64(buf), 64, 11), 64, 11)

---------------------------------------------------------------------------
(* dynmessage_cerializer.c (stored at the end of src/src/hashmap.c): the    *)
(* frame serializer.                                                        *)

DYN_MESSAGE_FIXED_LEN == 16
DYN_FIELD_FIXED_LEN == 16
DYN_MSG_MIN_LEN == 32
DYN_MSG_START == 1044266557
BYTES_4 == 4
BYTES_8 == 8

\* DYN_FIELD_TYPE_SER_SIZE[DYN_FIELD_TYPE_LEN]: eleven initialisers for the
\* thirteen elements, the rest zero; indexed by the dyn_field_type
DYN_FIELD_TYPE_SER_SIZE == <<4, 2, 2, 4, 4, 8, 8, 4, 8, 0, 0, 0, 0>>

\* what memory nobody has written holds: malloc'ed blocks, locals, and the
\* bytes past the end of an object
JunkBytes == {0, 165}

\* a slot of the list that no field was copied to
UninitField == [name |-> NullName, type |-> NO_TYPE, value |-> NULL, seq |-> 0]

\* a different function: the copies in the order hashmap_keys hands the keys
\* out, not at temp_array[field->seq-1]
dynmessage_get_fields_keyorder(message) ==
    IF dynmessage_initialized(message) # 0 /\ message.field_count > 0
    THEN Only({[list |-> [s \in 1..message.field_count |->
                            IF s <= Len(keys)
                            THEN dynmessage_get_field(message, keys[s])
                            ELSE UninitField],
                 list_length |-> message.field_count]
               : keys \in {hashmap_keys(message.map)}})
    ELSE [list |-> <<>>, list_length |-> 0]

\* dynmessage_get_fields(message): list[seq - 1] is the copy
\* dynmessage_get_field makes of the field each key of the map finds
dynmessage_get_fields(message) ==
    IF dynmessage_initialized(message) # 0 /\ message.field_count > 0
    THEN Only({[list |-> [s \in 1..message.field_count |->
                            IF \E k \in 1..Len(got) : got[k].seq = s
                            THEN got[CHOOSE k \in 1..Len(got) :
                                        /\ got[k].seq = s
                                        /\ \A j \in (k + 1)..Len(got) : got[j].seq # s]
                            ELSE UninitField],
                 list_length |-> message.field_count]
               : got \in {[k \in 1..Len(keys) |-> dynmessage_get_field(message, keys[k])]
                          : keys \in {hashmap_keys(message.map)}}})
    ELSE [list |-> <<>>, list_length |-> 0]

\* field->value->string_value of an entry of the list
StringOf(message, field) == message.fields[field.value].value.str

\* a different function: the terminator of a string counted in
ValueSize_terminated(message, field) ==
    IF field.type = STRING_TYPE THEN Len(StringOf(message, field)) + 1
    ELSE DYN_FIELD_TYPE_SER_SIZE[field.type + 1]

\* a different function: the size of the table also for a string
ValueSize_tableonly(message, field) == DYN_FIELD_TYPE_SER_SIZE[field.type + 1]

\* value_size in dynmessage_serialize_bin
ValueSize(message, field) ==
    IF field.type = STRING_TYPE THEN Len(StringOf(message, field))
    ELSE DYN_FIELD_TYPE_SER_SIZE[field.type + 1]

RECURSIVE SumFieldLengths(_, _, _)
SumFieldLengths(message, list, i) ==
    IF i > Len(list) THEN 0
    ELSE (DYN_FIELD_FIXED_LEN + strlen(list[i].name)
            + DYN_FIELD_TYPE_SER_SIZE[list[i].type + 1]
            + (IF list[i].type = STRING_TYPE THEN Len(StringOf(message, list[i])) ELSE 0))
         + SumFieldLengths(message, list, i + 1)

\* a different function: the fixed part and the name counted also when there
\* is no field
calc_dynmessage_serialized_len_always(message) ==
    Only({DYN_MESSAGE_FIXED_LEN + Len(message.name)
              + SumFieldLengths(message, field_list.list, 1)
          : field_list \in {dynmessage_get_fields(message)}})

calc_dynmessage_serialized_len(message) ==
    Only({IF field_list.list_length > 0
          THEN DYN_MESSAGE_FIXED_LEN + Len(message.name)
                  + SumFieldLengths(message, field_list.list, 1)
          ELSE 0
          : field_list \in {dynmessage_get_fields(message)}})

\* the bytes the switch of dynmessage_serialize_bin writes at data
ValueBytes(message, field) ==
    LET v == message.fields[field.value].value
    IN  CASE field.type \in {ENUMERATION_TYPE, INT32_TYPE, UNSIGNED_INT32_TYPE} ->
                 SubSeq(serialize_int32(<<0, 0, 0, 0>>, v.num), 1, 4)
          [] field.type \in {INT16_TYPE, UNSIGNED_INT16_TYPE} ->
                 SubSeq(serialize_int16(<<0, 0>>, v.num), 1, 2)
          [] field.type \in {INT64_TYPE, UNSIGNED_INT64_TYPE} ->
                 SubSeq(serialize_int64(<<0, 0, 0, 0, 0, 0, 0, 0>>, v.num), 1, 8)
          [] field.type = FLOAT32_TYPE ->
                 SubSeq(serialize_float32(<<0, 0, 0, 0>>, v.flt), 1, 4)
          [] field.type = FLOAT64_TYPE ->
                 SubSeq(serialize_float64(<<0, 0, 0, 0, 0, 0, 0, 0>>, v.flt), 1, 8)
          [] field.type = STRING_TYPE -> v.str
          [] OTHER -> <<>>

\* serialize_int32(data, n) for an int n: the offset and the bytes written
WriteInt32(off, n) == <<off, SubSeq(serialize_int32(<<0, 0, 0, 0>>, FromInt(n)), 1, 4)>>

\* the writes of the loop over the fields, in order, from offset base
RECURSIVE FieldWrites(_, _, _, _)
FieldWrites(message, list, i, base) ==
    IF i > Len(list) THEN <<>>
    ELSE Only({<<WriteInt32(base, DYN_FIELD_FIXED_LEN + k + value_size),
                 WriteInt32(base + 4, k),
                 <<base + 8, list[i].name.chars>>,
                 WriteInt32(base + 8 + k, list[i].type),
                 WriteInt32(base + 12 + k, value_size),
                 <<base + 16 + k, ValueBytes(message, list[i])>>>>
               \o Only({FieldWrites(message, list, i + 1, next)
                        : next \in {base + 16 + k + value_size}})
               : k \in {strlen(list[i].name)},
                 value_size \in {ValueSize(message, list[i])}})

\* all writes of dynmessage_serialize_bin through data, in order
FrameWrites(message, message_length) ==
    <<WriteInt32(0, DYN_MSG_START),
      WriteInt32(4, message_length),
      WriteInt32(8, Len(message.name)),
      <<12, message.name>>,
      WriteInt32(12 + Len(message.name), message.field_count)>>
    \o Only({FieldWrites(message, field_list.list, 1, 16 + Len(message.name))
             : field_list \in {dynmessage_get_fields(message)}})

\* byte at offset k - 1 of memory that held junk before the writes
MemoryAfter(writes, k, junk) ==
    IF \E i \in 1..Len(writes) :
           writes[i][1] < k /\ k <= writes[i][1] + Len(writes[i][2])
    THEN Only({writes[i][2][k - writes[i][1]]
               : i \in {CHOOSE i \in 1..Len(writes) :
                          /\ writes[i][1] < k /\ k <= writes[i][1] + Len(writes[i][2])
                          /\ \A j \in (i + 1)..Len(writes) :
                                ~(writes[j][1] < k
                                    /\ k <= writes[j][1] + Len(writes[j][2]))}})
    ELSE junk

\* the end of the furthest write
RECURSIVE WritesEnd(_, _)
WritesEnd(writes, i) ==
    IF i > Len(writes) THEN 0
    ELSE Only({IF writes[i][1] + Len(writes[i][2]) > r
               THEN writes[i][1] + Len(writes[i][2]) ELSE r
               : r \in {WritesEnd(writes, i + 1)}})

\* a serialized_data_info the caller has not filled in
NoSerdi ==
    [set |-> FALSE, ser_data |-> <<>>, ser_data_len |-> 0, overrun |-> 0,
     released |-> FALSE, twice |-> FALSE]

\* dynmessage_serialize_bin(message, serdi): *serdi afterwards (serdi_in
\* before); ser_data is
\* a fresh block of message_length bytes holding junk, and overrun counts the
\* bytes written behind it.  `set` says that ser_data is not NULL, `released`
\* that the block it points to has been freed, `twice` that a block was
\* freed again.
dynmessage_serialize_bin(message, serdi_in, junk) ==
    Only({IF message_length > DYN_MSG_MIN_LEN
          THEN Only({[set |-> TRUE,
                      ser_data |-> [k \in 1..message_length |-> MemoryAfter(w, k, junk)],
                      ser_data_len |-> message_length,
                      overrun |-> Only({IF end > message_length
                                        THEN end - message_length ELSE 0
                                        : end \in {WritesEnd(w, 1)}}),
                      released |-> FALSE, twice |-> FALSE]
                     : w \in {FrameWrites(message, message_length)}})
          ELSE serdi_in
          : message_length \in {calc_dynmessage_serialized_len(message)}})

\* clear_serialized_data_info(serdi): SAFE_FREE(serdi->ser_data) calls
\* safe_free with the value of the pointer, the member keeps the address
clear_serialized_data_info(serdi_in) ==
    IF serdi_in.set
    THEN [serdi_in EXCEPT !.twice = serdi_in.released, !.released = TRUE,
                          !.ser_data_len = 0]
    ELSE [serdi_in EXCEPT !.ser_data_len = 0]

---------------------------------------------------------------------------
(* dynmessage_cerializer.c: the frame deserializer.  `data` is the object   *)
(* the caller's pointer points into, data_len the length the caller         *)
(* states; what lies behind the object is junk.                             *)

\* strslice(dest, src, start_idx, n): the n bytes dest receives
strslice(src, start_idx, n, junk) ==
    [j \in 1..n |-> IF start_idx + j <= Len(src) THEN src[start_idx + j] ELSE junk]

\* the cast (int) of a decoded integer
IntOf(z) ==
    Only({s[1] + Limb * (IF s[2] >= HalfLimb THEN s[2] - Limb ELSE s[2])
          : s \in {ToS(z, 32)}})

verify_dynmessage_start_lenonly(data, data_len, junk) ==
    IF data # NullBuf /\ data_len >= BYTES_4 THEN 1 ELSE 0
verify_dynmessage_start(data, data_len, junk) ==
    IF data # NullBuf /\ data_len >= BYTES_4
    THEN (IF IntOf(deserialize_int32(strslice(data, 0, 4, junk))) = DYN_MSG_START
          THEN 1 ELSE 0)
    ELSE 0

get_encoded_dynmessage_length(data, data_len, junk) ==
    IF data # NullBuf /\ data_len >= BYTES_8
    THEN IntOf(deserialize_int32(strslice(data, BYTES_4, BYTES_4, junk)))
    ELSE 0

verify_full_dynmessage(data, data_len, junk) ==
    IF verify_dynmessage_start(data, data_len, junk) # 0
    THEN (IF get_encoded_dynmessage_length(data, data_len, junk) <= data_len
          THEN 1 ELSE 0)
    ELSE 0

\* the offset behind the last byte of data the two verify functions read
VerifyReads(data, data_len, junk) ==
    IF data # NullBuf /\ data_len >= BYTES_4
    THEN (IF verify_dynmessage_start(data, data_len, junk) # 0 /\ data_len >= BYTES_8
          THEN BYTES_8 ELSE BYTES_4)
    ELSE 0

\* the C string in a block whose last byte was set to '\0'
CString(bytes) == ReadString(bytes \o <<0>>)

\* the types the switch of dynmessage_deserialize_bin has a case for that
\* calls dynmessage_put_field_and_value
DecodedTypes ==
    {ENUMERATION_TYPE, INT16_TYPE, UNSIGNED_INT16_TYPE, INT32_TYPE,
     UNSIGNED_INT32_TYPE, INT64_TYPE, UNSIGNED_INT64_TYPE, FLOAT32_TYPE,
     FLOAT64_TYPE, STRING_TYPE}

\* the bytes at the address the switch hands to the container: the local
\* variable of the case, and the stack behind it.  buf is field_value_buffer
\* and the heap behind it.
LocalValue(field_type, buffer, junk) ==
    LET buf == [j \in 1..8 |-> IF j <= Len(buffer) THEN buffer[j] ELSE junk]
        pad(bytes) == bytes \o [j \in 1..(8 - Len(bytes)) |-> junk]
    IN  CASE field_type = ENUMERATION_TYPE -> pad(StoreLE(deserialize_int32(buf), 4))
          [] field_type = INT16_TYPE -> pad(StoreLE(deserialize_int16(buf), 2))
          [] field_type = UNSIGNED_INT16_TYPE -> pad(StoreLE(deserialize_uint16(buf), 4))
          [] field_type = INT32_TYPE -> StoreLE(deserialize_int32(buf), 8)
          [] field_type = UNSIGNED_INT32_TYPE -> StoreLE(deserialize_uint32(buf), 8)
          [] field_type = INT64_TYPE -> StoreLE(deserialize_int64(buf), 8)
          [] field_type = UNSIGNED_INT64_TYPE -> StoreLE(deserialize_uint64(buf), 8)
          [] field_type = FLOAT32_TYPE ->
                 pad(StoreLE(HwEncode(deserialize_float32(buf), 32, 8), 4))
          [] field_type = FLOAT64_TYPE ->
                 StoreLE(HwEncode(deserialize_float64(buf), 64, 11), 8)
          [] field_type = STRING_TYPE -> buffer \o <<0>>
          [] OTHER -> NullBuf

\* dynmessage_put_field (a put with value NULL), then the switch
PutDecoded(message, field_name, field_type, buffer, junk) ==
    LET named == dynmessage_put_field_and_value(message, field_name, field_type,
                                                NullBuf, junk)
    IN  IF field_type \in DecodedTypes
        THEN dynmessage_put_field_and_value(named, field_name, field_type,
                 LocalValue(field_type, buffer, junk), junk)
        ELSE named

\* one pass of the loop over the fields.  st: the message so far, start_idx,
\* and fatal, set when the process ends inside the call (SAFE_MALLOC of a
\* negative length, a copy without end, a NULL dereference)
DeserializeField(data, st, junk) ==
    Only({IF len < 0 THEN [st EXCEPT !.fatal = TRUE, !.start_idx = @ + 8]
          ELSE Only({IF h.len < 0
                     THEN [st EXCEPT !.fatal = TRUE, !.start_idx = @ + 16 + len]
                     ELSE Only({[message |-> m,
                                 start_idx |-> st.start_idx + 16 + len + h.len,
                                 fatal |-> m.crashed]
                                : m \in {PutDecoded(st.message,
                                           StrPtr(CString(strslice(data, st.start_idx + 8, len, junk)), junk),
                                           h.type,
                                           strslice(data, st.start_idx + 16 + len, h.len, junk),
                                           junk)}})
                     : h \in {[type |-> IntOf(deserialize_int32(
                                            strslice(data, st.start_idx + 8 + len, 4, junk))),
                               len |-> IntOf(deserialize_int32(
                                            strslice(data, st.start_idx + 12 + len, 4, junk)))]}})
          : len \in {IntOf(deserialize_int32(strslice(data, st.start_idx + 4, 4, junk)))}})

RECURSIVE DeserializeFields(_, _, _, _, _)
DeserializeFields(data, st, i, field_count, junk) ==
    IF i >= field_count \/ st.fatal THEN st
    ELSE Only({DeserializeFields(data, s2, i + 1, field_count, junk)
               : s2 \in {DeserializeField(data, st, junk)}})

\* dynmessage_deserialize_bin(data, data_len): the message returned
\* (NoMessage for NULL), the number of dynmessage_create calls, the offset
\* behind the last byte of data read, and fatal when the call does not return
dynmessage_deserialize_bin(data, data_len, junk) ==
    IF verify_full_dynmessage(data, data_len, junk) = 0
    THEN [message |-> NoMessage, null |-> TRUE, created |-> 0,
          maxread |-> VerifyReads(data, data_len, junk), fatal |-> FALSE]
    ELSE Only({IF len < 0
               THEN [message |-> NoMessage, null |-> TRUE, created |-> 0,
                     maxread |-> 12, fatal |-> TRUE]
               ELSE Only({[message |-> st.message, null |-> FALSE, created |-> 1,
                           maxread |-> st.start_idx, fatal |-> st.fatal]
                          : st \in {DeserializeFields(data,
                                [message |-> dynmessage_init(
                                     StrPtr(CString(strslice(data, 12, len, junk)), junk)),
                                 start_idx |-> 16 + len, fatal |-> FALSE],
                                0,
                                IntOf(deserialize_int32(strslice(data, 12 + len, 4, junk))),
                                junk)}})
               : len \in {IntOf(deserialize_int32(strslice(data, BYTES_8, BYTES_4, junk)))}})

---------------------------------------------------------------------------
(* The codec driven on its own: a caller's buffer, one serialize_int*, then *)
(* the deserialize_* of the same width.                                    *)

\* bytes after the 8 a serialize_int64 may write, to see a write past them
GuardLen == 2

\* what the caller's buffer holds before the call
Prefills == {0, 165}

SignedInputs(w) ==
    CASE w = 16 -> {FromInt(-32768), FromInt(-1), FromInt(0), FromInt(1),
                    FromInt(4660), FromInt(32767)}
      [] w = 32 -> {<<0, HalfLimb, Limb - 1, -1>>, FromInt(-1), FromInt(0), FromInt(1),
                    FromInt(305419896), <<Limb - 1, HalfLimb - 1, 0, 0>>}
      [] w = 64 -> {<<0, 0, 0, -HalfLimb>>, FromInt(-1), FromInt(0), FromInt(1),
                    <<4660, 22136, 39612, 4660>>,
                    <<Limb - 1, Limb - 1, Limb - 1, HalfLimb - 1>>}

UnsignedInputs(w) ==
    CASE w = 16 -> {FromInt(0), FromInt(255), FromInt(256), FromInt(32768),
                    FromInt(65535)}
      [] w = 32 -> {FromInt(0), FromInt(65536), <<0, HalfLimb, 0, 0>>,
                    <<1, 2 * 256 + 3, 0, 0>>, ZAllOnes32}
      [] w = 64 -> {FromInt(0), <<0, 0, 1, 0>>, <<0, 0, 0, HalfLimb>>,
                    <<8 * 256 + 7, 6 * 256 + 5, 4 * 256 + 3, 2 * 256 + 1>>, ZAllOnes64}

\* values wider than the field they are packed into
WideInputs(w) ==
    CASE w = 16 -> {<<22136, 4660, 0, 0>>, ZAllOnes32}
      [] w = 32 -> {<<4660, 22136, 39612, 4660>>, ZAllOnes64}
      [] w = 64 -> {}

\* the caller's buffer: 8 bytes and the guard bytes after them, all holding p
CallerBuffer(p) == [k \in 1..(8 + GuardLen) |-> p]

\* no call yet
NoCall == [op |-> "none", name |-> NullName, type |-> NO_TYPE, value |-> NullBuf]

CIdle ==
    /\ cbuf = CallerBuffer(0)
    /\ cpre = cbuf
    /\ cw = 0
    /\ cin = ZZero
    /\ cdom = "x"
    /\ cop = "none"
    /\ cout = ZZero

\* no frame written, no frame read yet
NoInput == [kind |-> "none", data |-> NullBuf, data_len |-> 0]
NoResult ==
    [message |-> NoMessage, null |-> TRUE, created |-> 0, maxread |-> 0,
     fatal |-> FALSE]
FIdle ==
    /\ serdi = NoSerdi
    /\ din = NoInput
    /\ dres = NoResult

CInit ==
    /\ CIdle
    /\ FIdle
    /\ msg = NoMessage
    /\ out = NoField
    /\ last = NoCall

\* serialize_int<w>(buf, x) on a caller's buffer that holds p everywhere
CSerialize(w, x, dom) ==
    \E p \in Prefills :
    /\ cpre' = CallerBuffer(p)
    /\ cbuf' = CASE w = 16 -> serialize_int16(CallerBuffer(p), x)
                 [] w = 32 -> serialize_int32(CallerBuffer(p), x)
                 [] w = 64 -> serialize_int64(CallerBuffer(p), x)
    /\ cw' = w
    /\ cin' = x
    /\ cdom' = dom
    /\ cop' = "serialize"
    /\ cout' = ZZero
    /\ UNCHANGED <<mvars, fvars>>

CSerializeSigned == \E w \in {16, 32, 64} : \E x \in SignedInputs(w) : CSerialize(w, x, "s")
CSerializeUnsigned == \E w \in {16, 32, 64} : \E x \in UnsignedInputs(w) : CSerialize(w, x, "u")
CSerializeWide == \E w \in {16, 32} : \E x \in WideInputs(w) : CSerialize(w, x, "x")

CDeserializeSigned ==
    /\ cw # 0
    /\ cop' = "deserialize_int"
    /\ cout' = CASE cw = 16 -> deserialize_int16(cbuf)
                 [] cw = 32 -> deserialize_int32(cbuf)
                 [] cw = 64 -> deserialize_int64(cbuf)
    /\ UNCHANGED <<cbuf, cpre, cw, cin, cdom>>
    /\ UNCHANGED <<mvars, fvars>>

CDeserializeUnsigned ==
    /\ cw # 0
    /\ cop' = "deserialize_uint"
    /\ cout' = CASE cw = 16 -> deserialize_uint16(cbuf)
                 [] cw = 32 -> deserialize_uint32(cbuf)
                 [] cw = 64 -> deserialize_uint64(cbuf)
    /\ UNCHANGED <<cbuf, cpre, cw, cin, cdom>>
    /\ UNCHANGED <<mvars, fvars>>

CNext ==
    \/ CSerializeSigned
    \/ CSerializeUnsigned
    \/ CSerializeWide
    \/ CDeserializeSigned
    \/ CDeserializeUnsigned

SpecCodec == CInit /\ [][CNext]_vars

---------------------------------------------------------------------------
(* The floating point codec driven on its own: serialize_float32 or         *)
(* serialize_float64 of a value of the format into a caller's buffer, then  *)
(* the matching deserialize of the buffer, one pair of calls in a run.      *)
(* cin holds the value passed, cout the value returned.                     *)

\* the value man * 2^exp of a float or double whose leading bit has weight
\* 2^top
FloatOf(neg, man, top) == FCanon(neg, man, top - (BitLen(man) - 1))

\* significands (odd, so no trailing zero bit) of up to 24 and up to 53 bits
Significands(bits) ==
    IF bits = 32
    THEN {Byte(1), Byte(3), Byte(5), Byte(19), <<1, 128, 0, 0>>,
          <<43691, 170, 0, 0>>, <<Limb - 1, 255, 0, 0>>}
    ELSE {Byte(1), Byte(3), Byte(5), Byte(19), <<1, 0, 0, 16>>,
          <<21845, 21845, 21845, 21>>, <<Limb - 1, Limb - 1, Limb - 1, 31>>}

\* exponents of the leading bit, from the least to the greatest a normal
\* value of the format has
Tops(bits) ==
    IF bits = 32 THEN {-126, -3, 0, 1, 2, 127} ELSE {-1022, -3, 0, 1, 2, 1023}

\* the finite normal values passed, and the two zeros
NormalInputs(bits) ==
    {FloatOf(neg, man, top) :
        neg \in BOOLEAN, man \in Significands(bits), top \in Tops(bits)}

ZeroInputs == {FZero, [FZero EXCEPT !.neg = TRUE]}

RInit ==
    /\ cbuf = CallerBuffer(0)
    /\ cpre = cbuf
    /\ cw = 0
    /\ cin = FZero
    /\ cdom = "f"
    /\ cop = "none"
    /\ cout = FZero
    /\ FIdle
    /\ msg = NoMessage
    /\ out = NoField
    /\ last = NoCall

\* serialize_float<bits>(buf, f) on a caller's buffer that holds p everywhere
RSerialize(bits, f) ==
    \E p \in Prefills :
    /\ cop = "none"
    /\ cpre' = CallerBuffer(p)
    /\ cbuf' = IF bits = 32 THEN serialize_float32(CallerBuffer(p), f)
               ELSE serialize_float64(CallerBuffer(p), f)
    /\ cw' = bits
    /\ cin' = f
    /\ cop' = "serialize"
    /\ cout' = FZero
    /\ UNCHANGED <<cdom, mvars, fvars>>

RSerializeNormal == \E bits \in {32, 64} : \E f \in NormalInputs(bits) : RSerialize(bits, f)
RSerializeZero == \E bits \in {32, 64} : \E f \in ZeroInputs : RSerialize(bits, f)

\* deserialize_float<bits>(buf) of the buffer just written
RDeserialize ==
    /\ cop = "serialize"
    /\ cop' = "deserialize"
    /\ cout' = IF cw = 32 THEN deserialize_float32(cbuf) ELSE deserialize_float64(cbuf)
    /\ UNCHANGED <<cbuf, cpre, cw, cin, cdom, mvars, fvars>>

RNext ==
    \/ RSerializeNormal
    \/ RSerializeZero
    \/ RDeserialize

SpecFloat == RInit /\ [][RNext]_vars

---------------------------------------------------------------------------
(* Properties of the floating point codec (checked under SpecFloat) *)

\* y lies within one unit in the last place of x, a value of the format with
\* sb significand bits: both are written as multiples of the unit 2^e
WithinOneUlp(x, y, sb) ==
    LET e == x.exp + BitLen(x.man) - 1 - sb
        X == UShl(x.man, x.exp - e)
        Y == UShl(y.man, y.exp - e)
    IN  /\ y.fin
        /\ y.neg = x.neg
        /\ y.exp >= e
        /\ y.exp - e + BitLen(y.man) <= sb + 2
        /\ ZLe(ZSub(X, Y), Byte(1))
        /\ ZLe(ZSub(Y, X), Byte(1))

\* the two dyadic values 1.25 and 2.375
Dyadics == {FloatOf(FALSE, Byte(5), 0), FloatOf(FALSE, Byte(19), 1)}

\* C24. Float round trip: what deserialize_float32 (deserialize_float64)
\* returns for the bytes serialize_float32 (serialize_float64) wrote for a
\* finite normal value is within one unit in the last place of that value;
\* a zero is written as bytes that are all zero; 1.25 and 2.375 come back
\* exactly.
C24_FloatRoundTrip ==
    /\ (cop = "deserialize" /\ cin.man # ZZero)
       => WithinOneUlp(cin, cout, IF cw = 32 THEN 23 ELSE 52)
    /\ (cop \in {"serialize", "deserialize"} /\ cin.man = ZZero)
       => \A k \in 1..(cw \div 8) : cbuf[k] = 0
    /\ (cop = "deserialize" /\ cin \in Dyadics) => cout = cin

\* the greatest double, with all 53 significand bits set, has come back, the
\* bytes after the eight written still hold what the caller put there
C24_Witness ==
    /\ cop = "deserialize"
    /\ cw = 64
    /\ cin = FloatOf(TRUE, <<Limb - 1, Limb - 1, Limb - 1, 31>>, 1023)
    /\ cout = cin
    /\ cpre[1] = 165
    /\ cbuf[1] # 165
    /\ cbuf[9] = 165

---------------------------------------------------------------------------
(* The container driven on its own: a message "Heartbeat", then puts and    *)
(* lookups with the arguments a caller can pass.                            *)

\* fields a message may grow to
MaxFields == 2


NameInputs == {StrPtr(NameMessageId, 0)} \cup {StrPtr(NameF, f) : f \in Fills}

TypeInputs == {INT16_TYPE, STRING_TYPE}

\* the objects a value pointer refers to: the int 7 and the string "ab"
ValueSeven == <<7, 0, 0, 0, 0, 0, 0, 0>>
ValueAb == <<97, 98, 0, 0, 0, 0, 0, 0>>
ValueInputs == {ValueSeven, ValueAb}

\* calls the sanity checks turn away: a NULL name, a NULL value, a type
\* outside ENUMERATION_TYPE..STRING_TYPE
RejectedInputs ==
    {<<NullName, INT16_TYPE, ValueSeven>>,
     <<StrPtr(NameMessageId, 0), STRING_TYPE, NullBuf>>,
     <<StrPtr(NameMessageId, 0), -1, ValueSeven>>,
     <<StrPtr(NameF, 0), NO_TYPE, ValueAb>>}

MInit ==
    /\ CIdle
    /\ FIdle
    /\ msg = dynmessage_init(StrPtr(NameHeartbeat, 0))
    /\ out = NoField
    /\ last = NoCall

\* dynmessage_put_field_and_value(&msg, name, type, value)
Put(name, type, value) ==
    \E heapfill \in Fills :
    LET after == dynmessage_put_field_and_value(msg, name, type, value, heapfill)
    IN  /\ ~msg.crashed
        /\ after.field_count <= MaxFields
        /\ msg' = after
        /\ last' = [op |-> "put", name |-> name, type |-> type, value |-> value]
        /\ UNCHANGED <<out, cvars, fvars>>

MPut == \E name \in NameInputs, type \in TypeInputs, value \in ValueInputs :
            Put(name, type, value)

MPutRejected == \E a \in RejectedInputs : Put(a[1], a[2], a[3])

\* dynmessage_get_field(&msg, name, &out)
GetField(name) ==
    /\ ~msg.crashed
    /\ out' = dynmessage_get_field(msg, name)
    /\ last' = [op |-> "get", name |-> name, type |-> NO_TYPE, value |-> NullBuf]
    /\ UNCHANGED <<msg, cvars, fvars>>

MGetField == \E name \in NameInputs \cup {NullName} : GetField(name)

MNext ==
    \/ MPut
    \/ MPutRejected
    \/ MGetField

SpecMsg == MInit /\ [][MNext]_vars

---------------------------------------------------------------------------
(* The frame codec driven as examples/heartbeat_message.c drives it: a      *)
(* message is initialised and filled, serialized once, and then             *)
(* dynmessage_deserialize_bin is handed the frame, part of it, or bytes     *)
(* that do not start a frame.                                               *)

\* bound: the number of fields put before the message is serialized
MaxFrameFields == 2

\* the types a put accepts: the first field takes each of them, a later field
\* one whose serialized size is right (enum), too small (int64), zero
\* (float) or counted (string)
FrameTypes(k) ==
    IF k = 1 THEN ENUMERATION_TYPE..STRING_TYPE
    ELSE {ENUMERATION_TYPE, INT64_TYPE, FLOAT32_TYPE, STRING_TYPE}

\* the object of each type whose address the put is given, and the caller's
\* memory behind it: enum 7, int8 -5, uint8 200, int16 -2, uint16 65535,
\* int32 -7, uint32 0x89ABCDEF, int64 0x0102030405060708,
\* uint64 0xF1E2D3C4B5A69788, float 1.25, double -2.5, "ab"
FrameValue(type) ==
    CASE type = ENUMERATION_TYPE -> <<7, 0, 0, 0, 0, 0, 0, 0>>
      [] type = INT8_TYPE -> <<251, 0, 0, 0, 0, 0, 0, 0>>
      [] type = UNSIGNED_INT8_TYPE -> <<200, 0, 0, 0, 0, 0, 0, 0>>
      [] type = INT16_TYPE -> <<254, 255, 255, 255, 0, 0, 0, 0>>
      [] type = UNSIGNED_INT16_TYPE -> <<255, 255, 0, 0, 0, 0, 0, 0>>
      [] type = INT32_TYPE -> <<249, 255, 255, 255, 255, 255, 255, 255>>
      [] type = UNSIGNED_INT32_TYPE -> <<239, 205, 171, 137, 0, 0, 0, 0>>
      [] type = INT64_TYPE -> <<8, 7, 6, 5, 4, 3, 2, 1>>
      [] type = UNSIGNED_INT64_TYPE -> <<136, 151, 166, 181, 196, 211, 226, 241>>
      [] type = FLOAT32_TYPE -> <<0, 0, 160, 63, 0, 0, 0, 0>>
      [] type = FLOAT64_TYPE -> <<0, 0, 0, 0, 0, 0, 4, 192>>
      [] OTHER -> ValueAb

\* "HeartbeatResponse": a name with which DYN_MESSAGE_FIXED_LEN + strlen(name)
\* alone is above DYN_MSG_MIN_LEN
NameHeartbeatResponse ==
    NameHeartbeat \o <<82, 101, 115, 112, 111, 110, 115, 101>>

MessageNames == {NameHeartbeat, NameHeartbeatResponse}

FInit ==
    /\ CIdle
    /\ FIdle
    /\ \E name \in MessageNames : msg = dynmessage_init(StrPtr(name, 0))
    /\ out = NoField
    /\ last = NoCall

\* dynmessage_put_field_and_value(&msg, "field_<k>", type, &value) for the
\* k-th field, before the message is serialized
FPut ==
    \E type \in FrameTypes(msg.field_count + 1) :
        /\ ~serdi.set
        /\ msg.field_count < MaxFrameFields
        /\ msg' = dynmessage_put_field_and_value(msg,
                      StrPtr(NameField(msg.field_count + 1), 0), type,
                      FrameValue(type), 0)
        /\ last' = [op |-> "put", name |-> StrPtr(NameField(msg.field_count + 1), 0),
                    type |-> type, value |-> FrameValue(type)]
        /\ UNCHANGED <<out, cvars, fvars>>

\* the object a replacing put points to: the int 25442, the string "bc"
ValueBc == <<98, 99, 0, 0, 0, 0, 0, 0>>

\* a put that names the first field again, right after a put: the value is
\* replaced, the type handed in (INT64_TYPE) is not looked at
FReplace ==
    /\ ~serdi.set
    /\ last.op = "put"
    /\ msg.fields[1].type \in {ENUMERATION_TYPE, STRING_TYPE}
    /\ msg' = dynmessage_put_field_and_value(msg, StrPtr(NameField(1), 0),
                  INT64_TYPE, ValueBc, 0)
    /\ last' = [op |-> "replace", name |-> StrPtr(NameField(1), 0),
                type |-> INT64_TYPE, value |-> ValueBc]
    /\ UNCHANGED <<out, cvars, fvars>>

\* dynmessage_serialize_bin(&msg, &serdi)
FSerialize ==
    \E junk \in JunkBytes :
        /\ ~serdi.set
        /\ last.op # "serialize"
        /\ serdi' = dynmessage_serialize_bin(msg, serdi, junk)
        /\ last' = [op |-> "serialize", name |-> NullName, type |-> NO_TYPE,
                    value |-> NullBuf]
        /\ UNCHANGED <<msg, out, din, dres, cvars>>

\* dynmessage_deserialize_bin(data, data_len), once
Deserialize(kind, data, data_len) ==
    \E junk \in JunkBytes :
        /\ serdi.set
        /\ din = NoInput
        /\ din' = [kind |-> kind, data |-> data, data_len |-> data_len]
        /\ dres' = dynmessage_deserialize_bin(data, data_len, junk)
        /\ last' = [op |-> "deserialize", name |-> NullName, type |-> NO_TYPE,
                    value |-> NullBuf]
        /\ UNCHANGED <<msg, out, serdi, cvars>>

\* ... of the frame just written, as the example does
FDeserializeFrame ==
    serdi.set /\ Deserialize("frame", serdi.ser_data, serdi.ser_data_len)

\* the lengths a frame of length L is cut to
PrefixLens(L) == {0, 3, 4, 7, 8, L - 1}

\* ... of the first p bytes of the frame: a copy of them in a block of its
\* own, or the frame itself with data_len = p
FDeserializePrefix ==
    /\ serdi.set
    /\ \E p \in PrefixLens(serdi.ser_data_len) :
          \/ Deserialize("prefix", SubSeq(serdi.ser_data, 1, p), p)
          \/ Deserialize("prefix", serdi.ser_data, p)

\* bytes that do not start with the 'Dynamic Message Start' identifier: the
\* frame with one of its first four bytes changed, that cut to 5 bytes,
\* 40 zero bytes, and the first two bytes of a frame
BadMagicInputs ==
    {<<[serdi.ser_data EXCEPT ![k] = (@ + 1) % 256], serdi.ser_data_len>> : k \in 1..4}
      \cup {<<SubSeq([serdi.ser_data EXCEPT ![4] = (@ + 1) % 256], 1, 5), 5>>,
            <<[k \in 1..40 |-> 0], 40>>,
            <<SubSeq(serdi.ser_data, 1, 2), 2>>}

FDeserializeBadMagic ==
    /\ serdi.set
    /\ \E a \in BadMagicInputs : Deserialize("badmagic", a[1], a[2])

FNext ==
    \/ FPut
    \/ FReplace
    \/ FSerialize
    \/ FDeserializeFrame
    \/ FDeserializePrefix
    \/ FDeserializeBadMagic

SpecFrame == FInit /\ [][FNext]_vars

---------------------------------------------------------------------------
(* Small messages and the carrier: a message whose name may be empty gets   *)
(* one field whose name and value may be empty, and is serialized into a    *)
(* carrier that is cleared and used again.                                  *)

EmitNames == {<<>>, NameHeartbeat}
EmitFieldNames == {<<>>, NameField(1)}

\* the empty string
ValueEmpty == <<0, 0, 0, 0, 0, 0, 0, 0>>

EmitValues(type) ==
    IF type = STRING_TYPE THEN {ValueEmpty, ValueAb} ELSE {FrameValue(type)}

EInit ==
    /\ CIdle
    /\ FIdle
    /\ \E name \in EmitNames : msg = dynmessage_init(StrPtr(name, 0))
    /\ out = NoField
    /\ last = NoCall

\* dynmessage_put_field_and_value(&msg, name, type, &value): the only field
EPut ==
    \E name \in EmitFieldNames, type \in ENUMERATION_TYPE..STRING_TYPE :
    \E value \in EmitValues(type) :
        /\ msg.field_count = 0
        /\ last.op = "none"
        /\ msg' = dynmessage_put_field_and_value(msg, StrPtr(name, 0), type, value, 0)
        /\ last' = [op |-> "put", name |-> StrPtr(name, 0), type |-> type,
                    value |-> value]
        /\ UNCHANGED <<out, cvars, fvars>>

\* dynmessage_serialize_bin(&msg, &serdi)
ESerialize ==
    \E junk \in JunkBytes :
        /\ ~serdi.twice
        /\ ~msg.crashed
        /\ serdi' = dynmessage_serialize_bin(msg, serdi, junk)
        /\ last' = [NoCall EXCEPT !.op = "serialize"]
        /\ UNCHANGED <<msg, out, din, dres, cvars>>

\* clear_serialized_data_info(&serdi)
EClear ==
    /\ ~serdi.twice
    /\ serdi' = clear_serialized_data_info(serdi)
    /\ last' = [NoCall EXCEPT !.op = "clear"]
    /\ UNCHANGED <<msg, out, din, dres, cvars>>

ENext ==
    \/ EPut
    \/ ESerialize
    \/ EClear

SpecEmit == EInit /\ [][ENext]_vars

---------------------------------------------------------------------------
(* The hash map driven on its own: hashmap_init with a small capacity, then *)
(* hashmap_put and hashmap_remove in any order.  msg.map is the map,        *)
(* msg.crashed is set when a call dereferences NULL, out is what the last   *)
(* hashmap_remove returned.                                                 *)

\* keys "field_1" .. "field_<MapKeys>", and the capacity passed to hashmap_init
MapKeys == 3
MapCapacity == 3

KeyInputs == {StrPtr(NameField(k), 0) : k \in 1..MapKeys}

PInit ==
    /\ CIdle
    /\ FIdle
    /\ msg = [NoMessage EXCEPT !.map = hashmap_init(MapCapacity)]
    /\ out = NoEntry
    /\ last = NoCall

\* hashmap_put(map, key, value); the values are the addresses 1 and 2
PPut ==
    \E key \in KeyInputs, value \in {1, 2} :
        /\ ~msg.crashed
        /\ msg' = [msg EXCEPT !.map = hashmap_put(@, key, value)]
        /\ last' = [NoCall EXCEPT !.op = "put", !.name = key]
        /\ UNCHANGED <<out, cvars, fvars>>

\* hashmap_remove(map, key)
PRemove ==
    \E key \in KeyInputs :
        /\ ~msg.crashed
        /\ \E r \in {hashmap_remove(msg.map, key)} :
              /\ msg' = IF r.fault THEN [msg EXCEPT !.crashed = TRUE]
                        ELSE [msg EXCEPT !.map = r.map]
              /\ out' = r.entry
        /\ last' = [NoCall EXCEPT !.op = "remove", !.name = key]
        /\ UNCHANGED <<cvars, fvars>>

PNext ==
    \/ PPut
    \/ PRemove

SpecMap == PInit /\ [][PNext]_vars

---------------------------------------------------------------------------
(* slinkedlist.c.  A list is a record: `nodes`, the nodes reachable from    *)
(* head in order (head is the first, NULL when there is none), each with    *)
(* the number of its block and its data; `size`, the member; `tail`, the    *)
(* number of the block the member points to (NULL = 0); `crashed`, set when *)
(* a call dereferences NULL or a pointer to a released node.                *)

slinkedlist_init == [nodes |-> <<>>, size |-> 0, tail |-> NULL, crashed |-> FALSE]

slinkedlist_empty(list) == IF list.size = 0 THEN 1 ELSE 0

\* the block SAFE_MALLOC returns for a new node: one that is not in use and
\* that no pointer of the list still refers to
NewNode(list, data) ==
    [id |-> CHOOSE n \in 1..(Len(list.nodes) + 2) :
                /\ n # list.tail
                /\ \A p \in 1..Len(list.nodes) : list.nodes[p].id # n
                /\ \A m \in 1..(n - 1) :
                      m = list.tail \/ \E p \in 1..Len(list.nodes) : list.nodes[p].id = m,
     data |-> data]

\* position in nodes of the node with the given block number, 0 if none
NodeAt(list, id) ==
    IF \E p \in 1..Len(list.nodes) : list.nodes[p].id = id
    THEN CHOOSE p \in 1..Len(list.nodes) : list.nodes[p].id = id
    ELSE 0

slinkedlist_append(list, data) ==
    Only({IF list.nodes = <<>>
          THEN [list EXCEPT !.nodes = <<new_node>>, !.tail = new_node.id, !.size = @ + 1]
          ELSE IF NodeAt(list, list.tail) = 0
          THEN [list EXCEPT !.crashed = TRUE]
          ELSE [list EXCEPT
                   !.nodes = SubSeq(@, 1, NodeAt(list, list.tail)) \o <<new_node>>,
                   !.tail = new_node.id, !.size = @ + 1]
          : new_node \in {NewNode(list, data)}})

slinkedlist_prepend(list, data) ==
    [list EXCEPT !.nodes = <<NewNode(list, data)>> \o @, !.size = @ + 1]

\* slinkedlist_delete_head(list): the list afterwards and the data returned
slinkedlist_delete_head(list) ==
    IF slinkedlist_empty(list) # 0 THEN [list |-> list, data |-> NULL]
    ELSE IF list.nodes = <<>>
    THEN [list |-> [list EXCEPT !.crashed = TRUE], data |-> NULL]
    ELSE [list |-> [list EXCEPT !.nodes = Tail(@), !.size = @ - 1,
                                !.tail = IF list.size - 1 = 0 THEN NULL ELSE @],
          data |-> list.nodes[1].data]

slinkedlist_delete_tail(list) ==
    IF slinkedlist_empty(list) # 0 THEN [list |-> list, data |-> NULL]
    ELSE IF list.nodes = <<>>
    THEN [list |-> [list EXCEPT !.crashed = TRUE], data |-> NULL]
    ELSE IF Len(list.nodes) >= 2
    THEN [list |-> [list EXCEPT !.nodes = SubSeq(@, 1, Len(@) - 1),
                                !.tail = list.nodes[Len(list.nodes) - 1].id,
                                !.size = @ - 1],
          data |-> list.nodes[Len(list.nodes)].data]
    ELSE [list |-> [list EXCEPT !.nodes = <<>>, !.tail = NULL, !.size = @ - 1],
          data |-> list.nodes[1].data]

\* slinkedlist_delete_data(list, data): the list afterwards and the result
slinkedlist_delete_data(list, data) ==
    IF slinkedlist_empty(list) # 0 THEN [list |-> list, result |-> 0]
    ELSE IF list.nodes = <<>>
    THEN [list |-> [list EXCEPT !.crashed = TRUE], result |-> 0]
    ELSE IF \A p \in 1..Len(list.nodes) : list.nodes[p].data # data
    THEN [list |-> list, result |-> 0]
    ELSE Only({[list |-> [list EXCEPT
                             !.nodes = Without(@, p),
                             !.tail = IF list.nodes[p].id = list.tail
                                      THEN (IF p = 1 THEN NULL ELSE list.nodes[p - 1].id)
                                      ELSE @,
                             !.size = @ - 1],
                result |-> 1]
               : p \in {CHOOSE p \in 1..Len(list.nodes) :
                           /\ list.nodes[p].data = data
                           /\ \A q \in 1..(p - 1) : list.nodes[q].data # data}})

slinkedlist_reverse(list) ==
    IF slinkedlist_empty(list) # 0 THEN list
    ELSE [list EXCEPT
             !.nodes = [p \in 1..Len(list.nodes) |-> list.nodes[Len(list.nodes) + 1 - p]],
             !.tail = IF list.nodes = <<>> THEN NULL ELSE list.nodes[1].id]

---------------------------------------------------------------------------
(* The list driven on its own: slinkedlist_init, then the six operations in *)
(* any order.  msg is the list, out what the last call returned.            *)

\* nodes a list may grow to
MaxNodes == 3

\* the references stored
DataInputs == {1, 2}

LInit ==
    /\ CIdle
    /\ FIdle
    /\ msg = slinkedlist_init
    /\ out = NULL
    /\ last = NoCall

\* a call that returns nothing
LCall(op, after) ==
    /\ ~msg.crashed
    /\ msg' = after
    /\ out' = NULL
    /\ last' = [NoCall EXCEPT !.op = op]
    /\ UNCHANGED <<cvars, fvars>>

LAppend ==
    \E data \in DataInputs :
        msg.size < MaxNodes /\ LCall("append", slinkedlist_append(msg, data))

LPrepend ==
    \E data \in DataInputs :
        msg.size < MaxNodes /\ LCall("prepend", slinkedlist_prepend(msg, data))

LReverse == LCall("reverse", slinkedlist_reverse(msg))

\* a call that returns a value
LReturn(op, r, value) ==
    /\ ~msg.crashed
    /\ msg' = r.list
    /\ out' = value
    /\ last' = [NoCall EXCEPT !.op = op]
    /\ UNCHANGED <<cvars, fvars>>

LDeleteHead ==
    \E r \in {slinkedlist_delete_head(msg)} : LReturn("delete_head", r, r.data)

LDeleteTail ==
    \E r \in {slinkedlist_delete_tail(msg)} : LReturn("delete_tail", r, r.data)

LDeleteData ==
    \E data \in DataInputs :
    \E r \in {slinkedlist_delete_data(msg, data)} : LReturn("delete_data", r, r.result)

LNext ==
    \/ LAppend
    \/ LPrepend
    \/ LDeleteHead
    \/ LDeleteTail
    \/ LDeleteData
    \/ LReverse

SpecList == LInit /\ [][LNext]_vars

---------------------------------------------------------------------------
(* The life of a handle: dynmessage_create, then dynmessage_init, puts,     *)
(* lookups, dynmessage_free and dynmessage_destroy in any order a caller    *)
(* can write them.                                                          *)

HandleNames == {StrPtr(NameField(1), 0), StrPtr(NameField(2), 0)}

\* a call on the handle: what it leaves in msg when the handle's members are
\* stale (the read in dynmessage_initialized faults, or gives NULL and the
\* call returns, or gives the old content and the call goes on), `done` being
\* what it leaves otherwise
OnHandle(outcome, done) ==
    IF ~Stale(msg) THEN done
    ELSE IF outcome = "fault" THEN [msg EXCEPT !.uaf = TRUE, !.crashed = TRUE]
    ELSE IF outcome = "null" THEN [msg EXCEPT !.uaf = TRUE]
    ELSE [done EXCEPT !.uaf = TRUE]

\* the handle can be used: the process runs, no call has gone through a stale
\* member yet (what follows one is not followed up), and the handle's block
\* exists
Usable == ~msg.crashed /\ ~msg.uaf /\ last.op # "destroy"

\* dynamicmessage *msg = dynmessage_create()
HCreated ==
    /\ CIdle
    /\ FIdle
    /\ \E junk \in JunkBytes : msg = dynmessage_create(junk)
    /\ out = NoField
    /\ last = NoCall

\* dynmessage_init(msg, "Heartbeat") on a handle that holds no live message;
\* the caller keeps nothing it got from an earlier message
HInit ==
    /\ Usable
    /\ msg.map.null \/ msg.heap # "live"
    /\ msg' = [dynmessage_init(StrPtr(NameHeartbeat, 0)) EXCEPT
                   !.mem = AcquireAll(msg.mem, SeqOf(@.live))]
    /\ out' = NoField
    /\ last' = [NoCall EXCEPT !.op = "init"]
    /\ UNCHANGED <<cvars, fvars>>

\* dynmessage_put_field_and_value(msg, name, type, value)
HandlePut(name, type, value) ==
    \E outcome \in StaleOutcomes(msg) :
        /\ Usable
        /\ msg' = OnHandle(outcome,
                      dynmessage_put_field_and_value(msg, name, type, value, 0))
        /\ last' = [op |-> "put", name |-> name, type |-> type, value |-> value]
        /\ UNCHANGED <<out, cvars, fvars>>

HPut == \E name \in HandleNames, type \in TypeInputs :
            HandlePut(name, type, IF type = STRING_TYPE THEN ValueAb ELSE ValueSeven)

HPutRejected == \E a \in RejectedInputs : HandlePut(a[1], a[2], a[3])

\* dynmessage_get_field(msg, name, &out)
HGetField ==
    \E name \in HandleNames \cup {NullName}, outcome \in StaleOutcomes(msg) :
        /\ Usable
        /\ msg' = OnHandle(outcome, msg)
        /\ out' = IF msg'.crashed THEN out
                  ELSE IF Stale(msg) /\ outcome = "null" THEN NoField
                  ELSE dynmessage_get_field(msg, name)
        /\ last' = [op |-> "get", name |-> name, type |-> NO_TYPE, value |-> NullBuf]
        /\ UNCHANGED <<cvars, fvars>>

\* what a descriptor of a list shows to the caller who follows its pointers
\* into message m: the characters of the name, the type, the seq and the
\* dyn_field_value its value member points to
Shown(e, m) ==
    [name |-> e.name.chars, type |-> e.type, seq |-> e.seq,
     value |-> IF e.value = NULL THEN NullValue ELSE m.fields[e.value].value]

\* the list dynmessage_get_fields returns for m together with what each of
\* its descriptors shows at the time of the call
Snapshot(m) ==
    Only({[snap |-> l,
           then |-> [s \in 1..l.list_length |-> Shown(l.list[s], m)]]
          : l \in {dynmessage_get_fields(m)}})

\* list = dynmessage_get_fields(msg); out keeps the list
HGetFields ==
    \E outcome \in StaleOutcomes(msg) :
        /\ Usable
        /\ msg' = OnHandle(outcome, msg)
        /\ out' = IF Stale(msg) THEN out ELSE Snapshot(msg)
        /\ last' = [NoCall EXCEPT !.op = "fields"]
        /\ UNCHANGED <<cvars, fvars>>

\* dynmessage_free(msg)
HFree ==
    \E outcome \in StaleOutcomes(msg) :
        /\ Usable
        /\ msg' = OnHandle(outcome, dynmessage_free(msg))
        /\ last' = [NoCall EXCEPT !.op = "free"]
        /\ UNCHANGED <<out, cvars, fvars>>

\* dynmessage_destroy(msg)
HDestroy ==
    \E outcome \in StaleOutcomes(msg) :
        /\ Usable
        /\ msg' = OnHandle(outcome, dynmessage_destroy(msg))
        /\ last' = [NoCall EXCEPT !.op = "destroy"]
        /\ UNCHANGED <<out, cvars, fvars>>

HNext ==
    \/ HInit
    \/ HPut
    \/ HPutRejected
    \/ HGetField
    \/ HGetFields
    \/ HFree
    \/ HDestroy

SpecHandle == HCreated /\ [][HNext]_vars

---------------------------------------------------------------------------
(* Properties of the primitive codec (checked under SpecCodec) *)

\* byte j (0 the least significant) of an integer, by division
DigitOf(z, j) == ((z[(j \div 2) + 1] % Limb) \div (IF j % 2 = 0 THEN 1 ELSE 256)) % 256

\* the unsigned value of the n bytes at the start of buf, most significant first,
\* by Horner's rule
RECURSIVE HornerBE(_, _)
HornerBE(buf, n) ==
    IF n = 0 THEN ZZero
    ELSE LET h == HornerBE(buf, n - 1)
             d1 == h[1] * 256 + buf[n]
             d2 == h[2] * 256 + (d1 \div Limb)
             d3 == h[3] * 256 + (d2 \div Limb)
             d4 == h[4] * 256 + (d3 \div Limb)
         IN  <<d1 % Limb, d2 % Limb, d3 % Limb, d4>>

CDecoded == HornerBE(cbuf, cw \div 8)
CMaxUnsigned == CASE cw = 16 -> ZAllOnes16 [] cw = 32 -> ZAllOnes32 [] OTHER -> ZAllOnes64
CHighBit == cw # 0 /\ CDecoded[cw \div 16] >= HalfLimb

\* decoded - 2^w, the two's-complement reading of a w-bit field with the high bit set
CSignExtended ==
    CASE cw = 16 -> <<CDecoded[1], Limb - 1, Limb - 1, -1>>
      [] cw = 32 -> <<CDecoded[1], CDecoded[2], Limb - 1, -1>>
      [] OTHER -> <<CDecoded[1], CDecoded[2], CDecoded[3], CDecoded[4] - Limb>>

\* C2. Integer round-trip: a signed w-bit x comes back from deserialize_int<w>
\* and an unsigned w-bit x from deserialize_uint<w>, exactly, after
\* serialize_int<w> (w = 16, 32, 64).
C2_IntegerRoundTrip ==
    ((cop = "deserialize_int" /\ cdom = "s") \/ (cop = "deserialize_uint" /\ cdom = "u"))
        => cout = cin

C2_Witness ==
    /\ cop = "deserialize_int" /\ cdom = "s" /\ cw = 16
    /\ cin = FromInt(-32768) /\ cout = cin

\* C3. Big-endian packing: serialize_int16/32/64 leave in bytes 0..n-1 (n = 2, 4,
\* 8) the n low-order bytes of the value, most significant first, and leave every
\* byte from offset n on as it was.
C3_BigEndianPacking ==
    cop = "serialize" =>
        /\ \A k \in 1..(cw \div 8) : cbuf[k] = DigitOf(cin, (cw \div 8) - k)
        /\ \A k \in ((cw \div 8) + 1)..Len(cbuf) : cbuf[k] = cpre[k]

C3_Witness ==
    /\ cop = "serialize" /\ cw = 32 /\ cin = FromInt(305419896)
    /\ cpre[1] = 165
    /\ SubSeq(cbuf, 1, 6) = <<18, 52, 86, 120, 165, 165>>

\* C4 as stated. Signed unpack: with the high bit set the result is
\* -(1 - (MAX_UNSIGNED - decoded)); with it clear the result is decoded.
C4_AsStated ==
    cop = "deserialize_int" =>
        cout = IF CHighBit
               THEN ZSub(ZZero, ZSub(FromInt(1), ZSub(CMaxUnsigned, CDecoded)))
               ELSE CDecoded

\* C4 as amended. Signed unpack: with the high bit set the result is
\* -1 - (MAX_UNSIGNED - decoded), which is decoded - 2^w, the two's-complement
\* sign extension of the field; with it clear the result is decoded.
C4_SignedUnpack ==
    cop = "deserialize_int" =>
        /\ cout = IF CHighBit THEN ZSub(ZMinusOne, ZSub(CMaxUnsigned, CDecoded))
                  ELSE CDecoded
        /\ CHighBit => cout = CSignExtended

C4_Witness ==
    /\ cop = "deserialize_int" /\ cw = 64 /\ CHighBit
    /\ CDecoded = <<0, 0, 0, HalfLimb>> /\ cout = <<0, 0, 0, -HalfLimb>>

---------------------------------------------------------------------------
(* Properties of the container (checked under SpecMsg) *)

\* the fields of a message, a name being its characters
FieldNames(m) == [i \in 1..Len(m.fields) |-> m.fields[i].name.chars]
FieldsView(m) ==
    [i \in 1..Len(m.fields) |->
        [name |-> m.fields[i].name.chars, type |-> m.fields[i].type,
         value |-> m.fields[i].value, seq |-> m.fields[i].seq]]

\* the call was a put the sanity checks let through
LastPutAccepted(l) ==
    /\ l.op = "put"
    /\ ~l.name.null
    /\ l.value # NullBuf
    /\ l.type >= ENUMERATION_TYPE /\ l.type <= STRING_TYPE

\* C7. Container invariant: in every state reached from dynmessage_init by
\* puts that returned, field names are pairwise distinct, field_count is the
\* number of stored fields (of dyn_field objects, and of hashmap entries), and
\* the k-th field created holds seq k, so the seq values are 1..field_count.
C7_ContainerInvariant ==
    ~msg.crashed =>
        /\ \A i, j \in 1..Len(msg.fields) :
               FieldNames(msg)[i] = FieldNames(msg)[j] => i = j
        /\ msg.field_count = Len(msg.fields)
        /\ msg.field_count = Len(hashmap_entries(msg.map))
        /\ \A k \in 1..Len(msg.fields) : msg.fields[k].seq = k

\* C8. Lookup by name: after dynmessage_get_field(msg, name, out) with a
\* non-null name, out holds the type, value reference and seq of the field
\* with these characters if there is one, and (null, NO_TYPE, null, -1) if
\* there is none, whatever follows the name's terminator in memory.
C8_LookupByName ==
    (last.op = "get" /\ ~last.name.null /\ ~msg.crashed) =>
        IF \E i \in 1..Len(msg.fields) : FieldNames(msg)[i] = last.name.chars
        THEN \E i \in 1..Len(msg.fields) :
                /\ FieldNames(msg)[i] = last.name.chars
                /\ out = [name |-> last.name, type |-> msg.fields[i].type,
                          value |-> i, seq |-> msg.fields[i].seq]
        ELSE out = NoField

\* C9. Replace in place: a put that returns, with a name whose characters a
\* field already has, a non-null value and an in-range type, leaves
\* field_count, the number of fields, and every other field as they were; the
\* named field keeps its type and seq and takes the value read from the
\* pointer under its own type.
C9_ReplaceInPlace ==
    [][(/\ LastPutAccepted(last')
        /\ ~msg'.crashed
        /\ \E i \in 1..Len(msg.fields) : FieldNames(msg)[i] = last'.name.chars)
       => /\ msg'.field_count = msg.field_count
          /\ Len(msg'.fields) = Len(msg.fields)
          /\ \A i \in 1..Len(msg.fields) :
                FieldsView(msg')[i] =
                    IF FieldNames(msg)[i] = last'.name.chars
                    THEN [FieldsView(msg)[i] EXCEPT
                             !.value = ReadValue(msg.fields[i].type, last'.value)]
                    ELSE FieldsView(msg)[i]]_vars

\* C10. Idempotence of replace: a put that returns and repeats the previous
\* accepted put (the same name characters, type and value) leaves field_count
\* and every field's name, type, value and seq as the first put left them.
C10_IdempotentReplace ==
    [][(/\ LastPutAccepted(last) /\ LastPutAccepted(last')
        /\ last'.name.chars = last.name.chars
        /\ last'.type = last.type
        /\ last'.value = last.value
        /\ ~msg'.crashed)
       => /\ msg'.field_count = msg.field_count
          /\ FieldsView(msg') = FieldsView(msg)]_vars


\* dynmessage_get_fields(&msg): the list a caller is handed in this state
FieldList == dynmessage_get_fields(msg)

\* entry e of a list describes field f of the message: its characters, its
\* type, its seq and a reference to its value
Describes(e, m, f) ==
    /\ ~e.name.null
    /\ e.name.chars = m.fields[f].name.chars
    /\ e.type = m.fields[f].type
    /\ e.seq = m.fields[f].seq
    /\ e.value = (IF m.fields[f].value.null THEN NULL ELSE f)

---------------------------------------------------------------------------
(* Properties of the handle's life (SpecHandle) *)

\* the put recorded in l is one the sanity checks are to turn away on m: the
\* handle is NULL or was created and never initialized, or the name or the
\* value is NULL, or the type is outside ENUMERATION_TYPE..STRING_TYPE
InvalidPut(m, l) ==
    /\ l.op = "put"
    /\ \/ m.map.null
       \/ m.heap = "junk"
       \/ l.name.null
       \/ l.value = NullBuf
       \/ l.type < ENUMERATION_TYPE
       \/ l.type > STRING_TYPE

\* the call left the message as it was and the process running
LeftAlone(before, after) ==
    /\ ~after.crashed
    /\ after.name = before.name
    /\ after.field_count = before.field_count
    /\ FieldsView(after) = FieldsView(before)
    /\ hashmap_entries(after.map) = hashmap_entries(before.map)

\* C12. Invalid put is a silent no-op: dynmessage_put_field_and_value leaves
\* the message unchanged (field_count, every field's name, type, value and
\* seq) and signals nothing whenever the handle is null or was created but
\* never initialized, or name is null, or value_ptr is null, or type is below
\* ENUMERATION_TYPE or above STRING_TYPE.
C12_InvalidPutNoOp ==
    [][(InvalidPut(msg, last') /\ msg.heap # "freed") => LeftAlone(msg, msg')]_vars

\* the handle refers to no storage: the field collection and the name are
\* cleared and there is no field
Zeroed(m) == m.map.null /\ m.name = <<>> /\ m.field_count = 0

\* C13. Free leaves the handle zeroed: after dynmessage_free(handle) the
\* handle holds no reference to released storage (field collection and name
\* cleared, field_count == 0) and counts as uninitialized: a following put is
\* a no-op, get_field gives (null, NO_TYPE, null, -1), get_fields gives
\* length 0, and a second dynmessage_free or a dynmessage_destroy touches no
\* storage that was released already.
C13_FreeLeavesZeroed ==
    [][/\ (last'.op = "free" /\ dynmessage_initialized(msg) # 0 /\ msg.heap = "live")
            => (~msg'.crashed /\ Zeroed(msg'))
       /\ (msg.heap = "freed" /\ last'.op \in {"put", "get", "fields", "free", "destroy"})
            => /\ ~msg'.uaf
               /\ ~msg'.crashed
               /\ last'.op = "put" => LeftAlone(msg, msg')
               /\ last'.op = "get" => out' = NoField
               /\ last'.op = "fields" => dynmessage_get_fields(msg').list_length = 0]_vars

\* out holds a list of dynmessage_get_fields
IsSnapshot(o) == "snap" \in DOMAIN o

\* C22. Snapshots do not alias the message: the descriptors of a list
\* returned by dynmessage_get_fields keep showing the name, type, value and
\* seq the fields had when the list was made, after any later put that
\* replaces a field's value on the same message.
C22_SnapshotsDoNotAlias ==
    (IsSnapshot(out) /\ msg.heap = "live" /\ ~msg.crashed)
    => \A s \in 1..out.snap.list_length :
          Shown(out.snap.list[s], msg) = out.then[s]

\* C23. Exactly-once release: on a handle that was created, initialized and
\* given fields (new ones, replaced scalars and replaced strings), as long as
\* no call has faulted or gone through a stale member, no block has been
\* released twice and none has lost its last pointer while allocated, and
\* once dynmessage_destroy has returned no block the message acquired (the
\* handle, the name, the hashmap and its table, lists, nodes and entries, the
\* fields, their names, values and strings) is still allocated.
C23_ExactlyOnceRelease ==
    (~msg.crashed /\ ~msg.uaf)
    => /\ ~msg.mem.twice
       /\ ~msg.mem.lost
       /\ (last.op = "destroy" => msg.mem.live = {})

\* a message of two fields has been destroyed and nothing is left allocated
C23_Witness ==
    /\ last.op = "destroy"
    /\ ~msg.crashed
    /\ ~msg.uaf
    /\ Len(msg.fields) = MaxFields
    /\ msg.mem = NoMem

---------------------------------------------------------------------------
(* Properties of the hash map (checked under SpecMap) *)

\* the keys stored in a map: those of the entries in its lists
StoredKeys(map) ==
    {n.key.chars : n \in UNION {{map.table[i].nodes[j] : j \in 1..Len(map.table[i].nodes)}
                                : i \in 1..map.capacity}}

\* C29. Removal of an absent key: map->size equals the number of stored keys
\* in every state hashmap_put and hashmap_remove lead to, and hashmap_remove
\* of a key that is not stored returns NULL and leaves the map as it was,
\* also when the list of the key's bucket has been emptied by earlier
\* removals while other buckets hold entries.
C29_RemoveAbsentKey ==
    /\ [](~msg.crashed => msg.map.size = Cardinality(StoredKeys(msg.map)))
    /\ [][(last'.op = "remove" /\ ~(last'.name.chars \in StoredKeys(msg.map)))
          => (~msg'.crashed /\ out'.null /\ msg'.map = msg.map)]_vars

---------------------------------------------------------------------------
(* Properties of the linked list (checked under SpecList) *)

\* C30. Linked-list shape: after any sequence of append, prepend,
\* delete_head, delete_tail, delete_data and reverse on an initialized list
\* no call has dereferenced NULL, size is the number of nodes reachable from
\* head, head is NULL exactly when size is 0, and tail points to the last
\* node reachable from head (NULL when there is none).
C30_ListShape ==
    /\ ~msg.crashed
    /\ msg.size = Len(msg.nodes)
    /\ (msg.nodes = <<>>) <=> (msg.size = 0)
    /\ msg.tail = (IF msg.nodes = <<>> THEN NULL ELSE msg.nodes[Len(msg.nodes)].id)

---------------------------------------------------------------------------
(* Properties of the frame codec (SpecFrame) *)

\* the types the round trip is stated for
RoundTripTypes ==
    {ENUMERATION_TYPE, INT16_TYPE, UNSIGNED_INT16_TYPE, INT32_TYPE,
     UNSIGNED_INT32_TYPE, INT64_TYPE, UNSIGNED_INT64_TYPE, FLOAT32_TYPE,
     FLOAT64_TYPE, STRING_TYPE}

\* the last call was dynmessage_deserialize_bin
Deserialized == din.kind # "none"

\* the first data_len bytes of the input do not begin with 0x3E3E3E3D
MagicAbsent ==
    din.data_len < 4 \/ SubSeq(din.data, 1, 4) # <<62, 62, 62, 61>>

\* the big-endian 32-bit header at offset off of a frame
FrameInt(frame, off) ==
    ((frame[off + 1] * 256 + frame[off + 2]) * 256 + frame[off + 3]) * 256
        + frame[off + 4]

\* the offset of sub-frame i (from 0): behind the message name and the field
\* count, each sub-frame as long as its own total-length header says
RECURSIVE SubFrameAt(_, _)
SubFrameAt(frame, i) ==
    IF i = 0 THEN DYN_MESSAGE_FIXED_LEN + FrameInt(frame, 8)
    ELSE Only({o + FrameInt(frame, o) : o \in {SubFrameAt(frame, i - 1)}})

\* sub-frame i (from 0) of a frame, read by the layout
SubFrame(frame, i) ==
    Only({Only({[total |-> FrameInt(frame, o),
                 k |-> k,
                 name |-> SubSeq(frame, o + 9, o + 8 + k),
                 type |-> FrameInt(frame, o + 8 + k),
                 l |-> FrameInt(frame, o + 12 + k)]
                : k \in {FrameInt(frame, o + 4)}})
          : o \in {SubFrameAt(frame, i)}})

\* a frame was emitted for msg
Emitted == serdi.set /\ last.op = "serialize"

\* value_size as stated: the length of a string, else the fixed size of the type
StatedSize(field) ==
    CASE field.type = STRING_TYPE -> Len(field.value.str)
      [] field.type \in {INT16_TYPE, UNSIGNED_INT16_TYPE} -> 2
      [] field.type \in {ENUMERATION_TYPE, INT32_TYPE, UNSIGNED_INT32_TYPE,
                         FLOAT32_TYPE} -> 4
      [] field.type \in {INT64_TYPE, UNSIGNED_INT64_TYPE, FLOAT64_TYPE} -> 8

RECURSIVE StatedLength(_, _)
StatedLength(m, i) ==
    IF i > Len(m.fields) THEN DYN_MESSAGE_FIXED_LEN + Len(m.name)
    ELSE (DYN_FIELD_FIXED_LEN + strlen(m.fields[i].name) + StatedSize(m.fields[i]))
         + StatedLength(m, i + 1)

\* C14. Serialized length formula: for a message with at least one field,
\* all of the types the sizes are stated for, the ser_data_len set by
\* dynmessage_serialize_bin is 16 + len(msg.name) + the sum over the fields
\* of 16 + len(f.name) + value_size(f), value_size being len(string) for
\* STRING and else ENUM=4, I16=2, U16=2, I32=4, U32=4, I64=8, U64=8, F32=4,
\* F64=8, and the value-length header of each sub-frame is that value_size.
C14_LengthFormula ==
    (/\ Emitted
     /\ \A i \in 1..Len(msg.fields) : msg.fields[i].type \in RoundTripTypes)
    => /\ serdi.ser_data_len = StatedLength(msg, 1)
       /\ \A i \in 1..Len(msg.fields) :
             SubFrame(serdi.ser_data, i - 1).l = StatedSize(msg.fields[i])

\* C15. Frame header consistency: in every frame dynmessage_serialize_bin
\* emits, bytes 0..3 decode to 1044266557, the total-length header at bytes
\* 4..7 is ser_data_len, the field-count header is the message's field_count,
\* each sub-frame's total-length header is 16 + k + l for its own name length
\* k and value length l, and 16 + m + the sum of the sub-frame total lengths
\* is the total-length header.
C15_HeaderConsistency ==
    Emitted =>
        /\ Len(serdi.ser_data) = serdi.ser_data_len
        /\ FrameInt(serdi.ser_data, 0) = DYN_MSG_START
        /\ FrameInt(serdi.ser_data, 4) = serdi.ser_data_len
        /\ FrameInt(serdi.ser_data, 8) = Len(msg.name)
        /\ FrameInt(serdi.ser_data, 12 + Len(msg.name)) = msg.field_count
        /\ \A i \in 0..(msg.field_count - 1) :
              SubFrame(serdi.ser_data, i).total
                  = DYN_FIELD_FIXED_LEN + SubFrame(serdi.ser_data, i).k
                        + SubFrame(serdi.ser_data, i).l
        /\ SubFrameAt(serdi.ser_data, msg.field_count) = FrameInt(serdi.ser_data, 4)

\* a frame of two sub-frames, the first of a type whose value is written
\* wider than its value length, the second a string
C15_Witness ==
    /\ Emitted
    /\ msg.field_count = 2
    /\ SubFrame(serdi.ser_data, 0).type = INT64_TYPE
    /\ SubFrame(serdi.ser_data, 1).type = STRING_TYPE
    /\ SubFrame(serdi.ser_data, 1).total = 25

\* C16. Fields appear in put order in the frame: the i-th sub-frame (i from
\* 0) of the frame dynmessage_serialize_bin emits carries the name and the
\* type tag of the field whose seq is i+1, which is the (i+1)-th name first
\* put, whatever order the hash table hands the keys out in and whatever
\* values were replaced later.
C16_PutOrderInFrame ==
    Emitted =>
        \A s \in 1..msg.field_count :
            /\ SubFrame(serdi.ser_data, s - 1).name = NameField(s)
            /\ \E f \in 1..Len(msg.fields) :
                  /\ msg.fields[f].seq = s
                  /\ SubFrame(serdi.ser_data, s - 1).name = msg.fields[f].name.chars
                  /\ SubFrame(serdi.ser_data, s - 1).type = msg.fields[f].type

\* a frame of two fields, the first one's value replaced after the second was
\* put, hashmap_keys handing out the second name first
C16_Witness ==
    /\ Emitted
    /\ msg.field_count = 2
    /\ hashmap_keys(msg.map)[1].chars = NameField(2)
    /\ msg.fields[1].type = STRING_TYPE
    /\ msg.fields[1].value.str = <<98, 99>>
    /\ SubFrame(serdi.ser_data, 0).name = NameField(1)
    /\ SubFrame(serdi.ser_data, 0).l = 2

\* C17. Deterministic serialization: messages of the same logical content
\* (name, and the (name, type, value) fields in seq order) are serialized to
\* the same bytes of the same length, whatever the memory held in which they
\* were built and into which the frame is written: the frame emitted for msg
\* is the frame a serialization of msg emits in any other memory state.
C17_Deterministic ==
    (/\ Emitted
     /\ \A i \in 1..Len(msg.fields) : msg.fields[i].type \in RoundTripTypes)
    => \A junk \in JunkBytes :
          /\ dynmessage_serialize_bin(msg, NoSerdi, junk).ser_data_len
                = serdi.ser_data_len
          /\ dynmessage_serialize_bin(msg, NoSerdi, junk).ser_data = serdi.ser_data

\* C18. Empty message is not emitted: for an initialized message without
\* fields, whatever its name, dynmessage_serialize_bin on a
\* serialized_data_info that holds no buffer leaves ser_data unset and
\* ser_data_len 0.
C18_EmptyNotEmitted ==
    (last.op = "serialize" /\ msg.field_count = 0)
    => /\ ~serdi.set
       /\ serdi.ser_data = <<>>
       /\ serdi.ser_data_len = 0

\* the empty message serialized is one whose name alone is longer than
\* DYN_MSG_MIN_LEN - DYN_MESSAGE_FIXED_LEN
C18_Witness ==
    /\ last.op = "serialize"
    /\ dynmessage_initialized(msg) # 0
    /\ msg.field_count = 0
    /\ DYN_MESSAGE_FIXED_LEN + Len(msg.name) > DYN_MSG_MIN_LEN
    /\ ~serdi.set

\* C19. Decoding allocates a seq per sub-frame: when
\* dynmessage_deserialize_bin accepts a frame that declares n sub-frames of
\* pairwise distinct names, the message returned has field_count n and the
\* name of the i-th sub-frame (from 0) has seq i+1, also when the sub-frame's
\* value is zero-width or its type is one the decoder does not handle.
C19_SeqPerSubFrame ==
    (din.kind = "frame" /\ ~dres.null /\ ~dres.fatal)
    => /\ dres.message.field_count = FrameInt(din.data, 12 + FrameInt(din.data, 8))
       /\ \A i \in 0..(FrameInt(din.data, 12 + FrameInt(din.data, 8)) - 1) :
             \E f \in 1..Len(dres.message.fields) :
                 /\ dres.message.fields[f].name.chars = SubFrame(din.data, i).name
                 /\ dres.message.fields[f].seq = i + 1

\* C20. 8-bit types are rejected at the serialization boundary:
\* dynmessage_serialize_bin never produces a frame that has a sub-frame with
\* the type tag INT8_TYPE or UNSIGNED_INT8_TYPE.
C20_NoEightBitSubFrame ==
    Emitted =>
        \A i \in 0..(FrameInt(serdi.ser_data, 12 + FrameInt(serdi.ser_data, 8)) - 1) :
            SubFrame(serdi.ser_data, i).type \notin {INT8_TYPE, UNSIGNED_INT8_TYPE}

\* the l value bytes of sub-frame i (from 0)
SubFrameValue(frame, i) ==
    Only({SubSeq(frame, o + 17 + FrameInt(frame, o + 4),
                 o + 16 + FrameInt(frame, o + 4)
                   + FrameInt(frame, o + 12 + FrameInt(frame, o + 4)))
          : o \in {SubFrameAt(frame, i)}})

\* where the value bytes of sub-frame i end
SubFrameValueEnd(frame, i) ==
    Only({o + 16 + FrameInt(frame, o + 4)
            + FrameInt(frame, o + 12 + FrameInt(frame, o + 4))
          : o \in {SubFrameAt(frame, i)}})

\* C21. STRING values are raw in the frame: for every STRING field with
\* value s the sub-frame's value-length header is len(s), the value bytes are
\* the bytes of s without a terminator, and the next sub-frame (or the end of
\* the frame) starts right behind them; decoding the frame yields a STRING
\* field of that name whose value is s.
C21_StringRaw ==
    /\ Emitted =>
         \A f \in 1..Len(msg.fields) :
            msg.fields[f].type = STRING_TYPE =>
              /\ SubFrame(serdi.ser_data, msg.fields[f].seq - 1).name
                    = msg.fields[f].name.chars
              /\ SubFrame(serdi.ser_data, msg.fields[f].seq - 1).l
                    = Len(msg.fields[f].value.str)
              /\ SubFrameValue(serdi.ser_data, msg.fields[f].seq - 1)
                    = msg.fields[f].value.str
              /\ SubFrameValueEnd(serdi.ser_data, msg.fields[f].seq - 1)
                    = IF msg.fields[f].seq = msg.field_count
                      THEN serdi.ser_data_len
                      ELSE SubFrameAt(serdi.ser_data, msg.fields[f].seq)
    /\ (din.kind = "frame" /\ ~dres.fatal) =>
         /\ ~dres.null
         /\ \A f \in 1..Len(msg.fields) :
              msg.fields[f].type = STRING_TYPE =>
                \E g \in 1..Len(dres.message.fields) :
                   /\ dres.message.fields[g].name.chars = msg.fields[f].name.chars
                   /\ dres.message.fields[g].type = STRING_TYPE
                   /\ dres.message.fields[g].value.str = msg.fields[f].value.str

\* a frame whose first field is a replaced string and whose second field
\* follows it, decoded
C21_Witness ==
    /\ din.kind = "frame"
    /\ ~dres.null
    /\ msg.field_count = 2
    /\ msg.fields[1].type = STRING_TYPE
    /\ msg.fields[1].value.str = <<98, 99>>
    /\ msg.fields[2].type = INT64_TYPE
    /\ SubFrameValue(serdi.ser_data, 0) = <<98, 99>>
    /\ dres.message.fields[1].value.str = <<98, 99>>

\* the number of bytes the case of the decoder's switch for field_type reads
\* at field_value_buffer, a block of l bytes
DecodeWidth(field_type, l) ==
    CASE field_type \in {INT16_TYPE, UNSIGNED_INT16_TYPE} -> 2
      [] field_type \in {ENUMERATION_TYPE, INT32_TYPE, UNSIGNED_INT32_TYPE,
                         FLOAT32_TYPE} -> 4
      [] field_type \in {INT64_TYPE, UNSIGNED_INT64_TYPE, FLOAT64_TYPE} -> 8
      [] field_type = STRING_TYPE -> l
      [] OTHER -> 0

\* the input passed the two checks of verify_full_dynmessage
Accepted ==
    /\ din.kind # "none"
    /\ \E junk \in JunkBytes : verify_full_dynmessage(din.data, din.data_len, junk) # 0

\* C25. Decoder stays inside its input: when dynmessage_deserialize_bin
\* accepts its input, it reads no byte of data at an offset of data_len or
\* beyond, and, for the frame the serializer wrote, the case of each
\* sub-frame reads no more than the l bytes copied for the value.
C25_DecoderInsideInput ==
    Accepted
    => /\ dres.maxread <= din.data_len
       /\ din.kind = "frame"
          => \A i \in 0..(msg.field_count - 1) :
                Only({DecodeWidth(s.type, s.l) <= s.l : s \in {SubFrame(din.data, i)}})

\* C26. Serializer stays inside its buffer: when dynmessage_serialize_bin
\* emits a frame, it writes no byte behind the ser_data_len bytes it
\* allocated, and the bytes it writes for the value of each field are no more
\* than the l bytes of that field's value region.
C26_SerializerInsideBuffer ==
    Emitted
    => /\ serdi.overrun = 0
       /\ Only({\A s \in 1..fl.list_length :
                    Len(ValueBytes(msg, fl.list[s])) <= ValueSize(msg, fl.list[s])
                : fl \in {dynmessage_get_fields(msg)}})

\* C27. Every non-empty message is emitted: after dynmessage_serialize_bin on
\* an initialized message with at least one field, whatever the lengths of
\* its name, of the field names and of the values, the carrier refers to a
\* buffer and ser_data_len > 0.
C27_NonEmptyEmitted ==
    (last.op = "serialize" /\ ~msg.crashed /\ msg.field_count >= 1)
    => (serdi.set /\ ~serdi.released /\ serdi.ser_data_len > 0)

\* C28. Clear is safe to repeat: after clear_serialized_data_info the carrier
\* has ser_data_len = 0 and does not refer to the buffer that was released,
\* and no buffer is released a second time.
C28_ClearRepeatable ==
    /\ last.op = "clear" => (serdi.ser_data_len = 0 /\ ~(serdi.set /\ serdi.released))
    /\ ~serdi.twice

\* C1 (frame round-trip): when the frame dynmessage_serialize_bin wrote for
\* a message with at least one field, all of types ENUM, I16, U16, I32, U32,
\* I64, U64, F32, F64 or STRING, is handed to dynmessage_deserialize_bin with
\* its length, the call returns a message with the same name, the same
\* field_count and the same (name, type, value) triples in the same seq order.
C1_FrameRoundTrip ==
    (/\ din.kind = "frame"
     /\ msg.field_count >= 1
     /\ \A i \in 1..Len(msg.fields) : msg.fields[i].type \in RoundTripTypes)
    => /\ ~dres.fatal
       /\ ~dres.null
       /\ dres.message.name = msg.name
       /\ dres.message.field_count = msg.field_count
       /\ FieldsView(dres.message) = FieldsView(msg)

\* C5 (magic gate): for every input whose first four bytes are not the
\* big-endian 1044266557, whatever data_len is (less than 4 included),
\* dynmessage_deserialize_bin returns NULL, creates no message, and reads no
\* byte of the input at offset 4 or beyond.
C5_MagicGate ==
    (Deserialized /\ MagicAbsent)
    => /\ ~dres.fatal
       /\ dres.null
       /\ dres.message = NoMessage
       /\ dres.created = 0
       /\ dres.maxread <= 4

\* a frame-long input with a wrong first word was turned away after the
\* four bytes of that word were read
C5_Witness ==
    /\ din.kind = "badmagic"
    /\ din.data_len = serdi.ser_data_len
    /\ SubSeq(din.data, 5, din.data_len) = SubSeq(serdi.ser_data, 5, din.data_len)
    /\ dres.null
    /\ dres.maxread = 4

\* C6 (truncation / length gate): for every frame of length L that
\* dynmessage_serialize_bin wrote and every p with 0 <= p < L,
\* dynmessage_deserialize_bin on its first p bytes with data_len = p returns
\* NULL and has built no message.
C6_TruncationGate ==
    (din.kind = "prefix" /\ din.data_len < serdi.ser_data_len)
    => /\ ~dres.fatal
       /\ dres.null
       /\ dres.created = 0

============================================================================
